---- MODULE Spec2Model ----
(***************************************************************************)
(* er-diagram: catalog introspection (PostgreSQL and MySQL adapters) and   *)
(* the Mermaid renderer.  Text is modelled by strings, built and taken     *)
(* apart character by character with \o, Len and SubSeq.                   *)
(***************************************************************************)
EXTENDS Integers, Sequences, FiniteSets, TLC

VARIABLES
    schema,     \* the DatabaseSchema handed to MermaidGenerator.generate
    diagram,    \* the text returned by generate ("" before the call)
    gpc,        \* position of the caller of generate: "ready" | "generated"
    type,       \* the type string handed to cleanType
    cleaned,    \* the string returned by cleanType
    cpc,        \* position of the caller of cleanType: "ready" | "cleaned"
    dialect,            \* which adapter runs: "postgresql" | "mysql"
    catalog,            \* the metadata catalog of the database the adapter queries
    excludedTables,     \* getSchema's first argument
    showIndexes,        \* getSchema's second argument: "true" | "false" | "omitted"
    apc,                \* position of getSchema: the await it is suspended at
    enums,              \* getSchema's local: the result of getEnums
    tables,             \* getTables' local array of finished tables
    relationships,      \* getSchema's local: the result of getRelationships
    enumRelationships,  \* getEnumRelationships' local array
    frame,              \* locals of the loops: rows iterated, indexes, current column flags
    fkRows,             \* the rows the foreign-key query returned
    queryLog,           \* every catalog query issued so far, in order
    connection,         \* the adapter's field sql / connection: 0 is undefined, n the n-th session
    sessions,           \* the sessions the driver has opened: "open" | "ended", by number
    calls,              \* the connect() and disconnect() calls made so far, with their outcomes
    readme,             \* the file at readmePath: whether it exists, and its text
    writes,             \* the writeDiagram calls made so far: argument, branch, file before
    mpc,                \* position of main() of generate-pg-diagram.ts: the await it is at
    queriesLeft,        \* the catalog queries main() has still to issue
    mainDiagram,        \* main's local diagram once the queries are done
    diagramFile,        \* the file MERMAID_FILE: whether it exists, and its text
    writeToReadme,      \* env.WRITE_TO_README
    steps,              \* the awaits main() has made so far, each with its outcome
    exitStatus,         \* the exit status of the process: "running" | "0" | "1"
    stderr,             \* the errors the process has reported, in order
    colRow,             \* one row of information_schema.columns
    fullType,           \* the full_type getColumns' query computed for colRow
    tpc,                \* position of that query: "idle" | "ready" | "done"
    enumColumnRows,           \* the rows MySQLAdapter.getEnums' query returned
    enumsOut,           \* the EnumType array getEnums returned for enumColumnRows
    epc,                \* position of that getEnums call: "idle" | "ready" | "done"
    gitpc,              \* position of GitCommitter.commitAndPush: the command it is at
    gitFiles,           \* config.files
    workTree,           \* whether the files have uncommitted changes: "dirty" | "clean"
    fileIndex,          \* stageFiles: the index of the file to add next
    gitLog,             \* the git commands run so far, each with its outcome
    gitOutcome,         \* the promise of commitAndPush: "pending" | "resolved" | "rejected"
    gitReported,        \* the commands whose error commitAndPush printed with console.error
    writers,            \* the concurrent writeDiagram calls: position, argument and locals of each
    readme0             \* the README as it was before those calls

genVars == <<schema, diagram, gpc>>
cleanVars == <<type, cleaned, cpc>>
inputVars == <<dialect, catalog, excludedTables, showIndexes>>
adapterVars == <<apc, enums, tables, relationships, enumRelationships, frame, fkRows, queryLog>>

lifeVars == <<connection, sessions, calls>>
readmeVars == <<readme, writes>>
mainVars == <<mpc, queriesLeft, mainDiagram, diagramFile, writeToReadme, steps, exitStatus, stderr>>
typeVars == <<colRow, fullType, tpc>>
enumParseVars == <<enumColumnRows, enumsOut, epc>>
gitVars == <<gitpc, gitFiles, workTree, fileIndex, gitLog, gitOutcome, gitReported>>
raceVars == <<writers, readme0>>
extraVars == <<typeVars, enumParseVars, gitVars, raceVars>>
coreVars == <<genVars, cleanVars, inputVars, adapterVars, lifeVars, readmeVars, mainVars>>
coreVarsButReadme == <<genVars, cleanVars, inputVars, adapterVars, lifeVars, mainVars>>
restVars == <<lifeVars, readmeVars, mainVars, extraVars>>

vars == <<genVars, cleanVars, inputVars, adapterVars, restVars>>

(***************************************************************************)
(* Bounds of the model.                                                    *)
(***************************************************************************)
MaxItems == 4       \* most enums + tables + relationships + enum relationships of a schema
MaxTypeLen == 5     \* longest type string handed to cleanType
MaxFks == 2         \* most foreign-key constraints in a catalog
MaxCalls == 4       \* most connect() and disconnect() calls a client makes
MaxWrites == 2      \* most writeDiagram calls on one README
MaxQueries == 4     \* most catalog queries one run of main() issues
MaxFiles == 2       \* most files in the config of a GitCommitter
MaxEnumRows == 2    \* most rows the enum query returns to a getEnums call checked on its own

(***************************************************************************)
(* String helpers (JavaScript String.prototype members used by the code).  *)
(***************************************************************************)
CharAt(s, i) == SubSeq(s, i, i)

\* "\s" of a JavaScript regular expression, and the characters trim() strips
Whitespace == {" ", "\t", "\n", "\r"}

\* s.startsWith(p, at i)
StartsWithAt(s, p, i) == i + Len(p) - 1 <= Len(s) /\ SubSeq(s, i, i + Len(p) - 1) = p

\* s.includes(p)
Includes(s, p) == \E i \in 1..(Len(s) + 1) : StartsWithAt(s, p, i)

\* s.replace(/<literal p>/g, r): leftmost matches, not overlapping, one pass
RECURSIVE ReplaceAllFrom(_, _, _, _)
ReplaceAllFrom(s, p, r, i) ==
    IF i > Len(s) THEN ""
    ELSE IF StartsWithAt(s, p, i) THEN r \o ReplaceAllFrom(s, p, r, i + Len(p))
    ELSE CharAt(s, i) \o ReplaceAllFrom(s, p, r, i + 1)

ReplaceAll(s, p, r) == ReplaceAllFrom(s, p, r, 1)

\* s.replace(/\s+/g, r): every maximal run of whitespace becomes one r
RECURSIVE ReplaceWhitespaceRunsFrom(_, _, _, _)
ReplaceWhitespaceRunsFrom(s, r, i, inRun) ==
    IF i > Len(s) THEN ""
    ELSE IF CharAt(s, i) \in Whitespace
         THEN (IF inRun THEN "" ELSE r) \o ReplaceWhitespaceRunsFrom(s, r, i + 1, TRUE)
         ELSE CharAt(s, i) \o ReplaceWhitespaceRunsFrom(s, r, i + 1, FALSE)

ReplaceWhitespaceRuns(s, r) == ReplaceWhitespaceRunsFrom(s, r, 1, FALSE)

\* s.trim()
RECURSIVE TrimStart(_)
TrimStart(s) ==
    IF Len(s) > 0 /\ CharAt(s, 1) \in Whitespace THEN TrimStart(SubSeq(s, 2, Len(s))) ELSE s

RECURSIVE TrimEnd(_)
TrimEnd(s) ==
    IF Len(s) > 0 /\ CharAt(s, Len(s)) \in Whitespace
    THEN TrimEnd(SubSeq(s, 1, Len(s) - 1)) ELSE s

Trim(s) == TrimEnd(TrimStart(s))

\* the position of the first ch at or after i, Len(s) + 1 when there is none
FirstAt(s, ch, i) ==
    IF \E j \in i..Len(s) : CharAt(s, j) = ch
    THEN CHOOSE j \in i..Len(s) :
            /\ CharAt(s, j) = ch
            /\ \A k \in i..(j - 1) : CharAt(s, k) # ch
    ELSE Len(s) + 1

\* s.split(sep), sep one character
RECURSIVE SplitFrom(_, _, _)
SplitFrom(s, sep, i) ==
    LET e == FirstAt(s, sep, i)
    IN  IF e > Len(s) THEN <<SubSeq(s, i, Len(s))>>
        ELSE <<SubSeq(s, i, e - 1)>> \o SplitFrom(s, sep, e + 1)

Split(s, sep) == SplitFrom(s, sep, 1)

\* array.join(sep)
RECURSIVE JoinFrom(_, _, _)
JoinFrom(arr, sep, i) ==
    IF i > Len(arr) THEN ""
    ELSE IF i = Len(arr) THEN arr[i]
    ELSE arr[i] \o sep \o JoinFrom(arr, sep, i + 1)

Join(arr, sep) == JoinFrom(arr, sep, 1)

(***************************************************************************)
(* MermaidGenerator                                                        *)
(***************************************************************************)
\* mutant: whitespace removed instead of replaced by an underscore
cleanType_StripWhitespace(t) ==
    Trim(ReplaceWhitespaceRuns(ReplaceAll(ReplaceAll(t, "NULL", ""), ",", "_"), ""))

cleanType(t) ==
    Trim(ReplaceWhitespaceRuns(ReplaceAll(ReplaceAll(t, "NULL", ""), ",", "_"), "_"))

\* mutant: the foreign-key test placed before the primary-key test
getKeyIndicator_FkFirst(column) ==
    IF column.isForeignKey THEN " FK"
    ELSE IF column.isPrimaryKey THEN " PK"
    ELSE IF column.isUnique THEN " UK"
    ELSE ""

getKeyIndicator(column) ==
    IF column.isPrimaryKey THEN " PK"
    ELSE IF column.isForeignKey THEN " FK"
    ELSE IF column.isUnique THEN " UK"
    ELSE ""

\* the inner loop of generateEnums: one line per value
RECURSIVE enumValueLines(_, _)
enumValueLines(values, i) ==
    IF i > Len(values) THEN ""
    ELSE "        " \o values[i] \o " string\n" \o enumValueLines(values, i + 1)

\* mutant: the value loop stops one element early
enumBlock_DropLast(enumType) ==
    "\n    \"" \o enumType.name \o " (ENUM)\" {\n"
        \o enumValueLines(SubSeq(enumType.values, 1, Len(enumType.values) - 1), 1)
        \o "    }\n"

enumBlock(enumType) ==
    "\n    \"" \o enumType.name \o " (ENUM)\" {\n"
        \o enumValueLines(enumType.values, 1)
        \o "    }\n"

RECURSIVE enumBlocksFrom(_, _)
enumBlocksFrom(es, i) ==
    IF i > Len(es) THEN "" ELSE enumBlock(es[i]) \o enumBlocksFrom(es, i + 1)

generateEnums(es) == IF Len(es) = 0 THEN "" ELSE enumBlocksFrom(es, 1)

columnLine(column) ==
    "        " \o column.name \o " " \o cleanType(column.type)
        \o getKeyIndicator(column) \o "\n"

RECURSIVE columnLines(_, _)
columnLines(columns, i) ==
    IF i > Len(columns) THEN "" ELSE columnLine(columns[i]) \o columnLines(columns, i + 1)

\* mutant: every index labelled as a plain index
indexLine_NeverUnique(index) ==
    "        string \"INDEX: " \o index.name \o " (" \o Join(index.columns, ", ") \o ")\"\n"

indexLine(index) ==
    LET indexType == IF index.isUnique THEN "UNIQUE INDEX" ELSE "INDEX"
        columns == Join(index.columns, ", ")
    IN  "        string \"" \o indexType \o ": " \o index.name \o " (" \o columns \o ")\"\n"

RECURSIVE indexLines(_, _)
indexLines(indexes, i) ==
    IF i > Len(indexes) THEN "" ELSE indexLine(indexes[i]) \o indexLines(indexes, i + 1)

\* table.indexes is optional: the field is absent when "indexes" is not in DOMAIN
tableBlock(table) ==
    "\n    " \o table.name \o " {\n"
        \o columnLines(table.columns, 1)
        \o (IF "indexes" \in DOMAIN table /\ Len(table.indexes) > 0
            THEN "\n" \o indexLines(table.indexes, 1)
            ELSE "")
        \o "    }\n"

RECURSIVE tableBlocksFrom(_, _)
tableBlocksFrom(ts, i) ==
    IF i > Len(ts) THEN "" ELSE tableBlock(ts[i]) \o tableBlocksFrom(ts, i + 1)

generateTables(ts) == tableBlocksFrom(ts, 1)

\* mutant: a relationship is rendered only if both of its tables are in the schema
relationshipLine_ResolvedOnly(rel) ==
    IF \E a, b \in 1..Len(schema.tables) :
            schema.tables[a].name = rel.fromTable /\ schema.tables[b].name = rel.toTable
    THEN (IF rel.type = "identifying"
          THEN "    " \o rel.fromTable \o " ||--o{ " \o rel.toTable \o " : \"has\"\n"
          ELSE "    " \o rel.fromTable \o " ||..o{ " \o rel.toTable \o " : \"references\"\n")
    ELSE ""

\* mutant: the two sides of the connector swapped
relationshipLine_Swapped(rel) ==
    IF rel.type = "identifying"
    THEN "    " \o rel.toTable \o " ||--o{ " \o rel.fromTable \o " : \"has\"\n"
    ELSE "    " \o rel.toTable \o " ||..o{ " \o rel.fromTable \o " : \"references\"\n"

relationshipLine(rel) ==
    IF rel.type = "identifying"
    THEN "    " \o rel.fromTable \o " ||--o{ " \o rel.toTable \o " : \"has\"\n"
    ELSE "    " \o rel.fromTable \o " ||..o{ " \o rel.toTable \o " : \"references\"\n"

RECURSIVE relationshipLinesFrom(_, _)
relationshipLinesFrom(rels, i) ==
    IF i > Len(rels) THEN ""
    ELSE relationshipLine(rels[i]) \o relationshipLinesFrom(rels, i + 1)

generateRelationships(rels) ==
    IF Len(rels) = 0 THEN "" ELSE relationshipLinesFrom(rels, 1)

enumRelationshipLine(rel) ==
    "    " \o rel.table \o " }o--|| \"" \o rel.enumType \o " (ENUM)\" : \"uses\"\n"

RECURSIVE enumRelationshipLinesFrom(_, _)
enumRelationshipLinesFrom(rels, i) ==
    IF i > Len(rels) THEN ""
    ELSE enumRelationshipLine(rels[i]) \o enumRelationshipLinesFrom(rels, i + 1)

generateEnumRelationships(rels) ==
    IF Len(rels) = 0 THEN ""
    ELSE "\n" \o enumRelationshipLinesFrom(rels, 1)

\* mutant: the table section emitted before the enum section
generate_TablesFirst(s) ==
    "erDiagram\n"
        \o generateTables(s.tables)
        \o generateEnums(s.enums)
        \o "\n"
        \o generateRelationships(s.relationships)
        \o generateEnumRelationships(s.enumRelationships)

generate(s) ==
    "erDiagram\n"
        \o generateEnums(s.enums)
        \o generateTables(s.tables)
        \o "\n"
        \o generateRelationships(s.relationships)
        \o generateEnumRelationships(s.enumRelationships)

(***************************************************************************)
(* The catalog the adapters query.  A nullable catalog value is a sequence *)
(* of length 0 (NULL) or 1.  Names sort in the order of NameOrder.         *)
(***************************************************************************)
NameOrder == <<"audit", "audit_log", "order_summary", "orders", "users">>

BaseTableNames == {"audit", "audit_log", "orders", "users"}
ViewNames == {"order_summary"}

Rank(order, x) == CHOOSE i \in 1..Len(order) : order[i] = x

\* the sequences that list the set S once each, in ascending order of key (a
\* function on S), rows with equal keys in any order (ORDER BY leaves ties open)
OrderedBy(S, key) ==
    { s \in [1..Cardinality(S) -> S] :
        /\ \A i, j \in 1..Cardinality(S) : i # j => s[i] # s[j]
        /\ \A i, j \in 1..Cardinality(S) : i < j => key[s[i]] <= key[s[j]] }

Digit(d) == CharAt("0123456789", d + 1)

\* integer to text, as || and CONCAT do
RECURSIVE ToText(_)
ToText(n) == IF n < 10 THEN Digit(n) ELSE ToText(n \div 10) \o Digit(n % 10)

CatCol(name, dataType, declared, len, precision, scale, pk, uq) ==
    [column_name |-> name, data_type |-> dataType, udt_name |-> declared,
     column_type |-> declared, character_maximum_length |-> len,
     numeric_precision |-> precision, numeric_scale |-> scale,
     primary |-> pk, unique |-> uq]

\* information_schema.columns of each relation, in ordinal position
CatalogColumns(d, t) ==
    IF d = "postgresql" THEN
        CASE t = "users" ->
                << CatCol("id", "integer", "int4", <<>>, <<32>>, <<0>>, TRUE, FALSE),
                   CatCol("email", "USER-DEFINED", "citext", <<>>, <<>>, <<>>, FALSE, TRUE),
                   CatCol("status", "USER-DEFINED", "user_status", <<>>, <<>>, <<>>,
                          FALSE, FALSE) >>
          [] t = "orders" ->
                << CatCol("id", "integer", "int4", <<>>, <<32>>, <<0>>, TRUE, FALSE),
                   CatCol("user_id", "integer", "int4", <<>>, <<32>>, <<0>>, FALSE, FALSE),
                   CatCol("audit_id", "integer", "int4", <<>>, <<32>>, <<0>>, FALSE, TRUE),
                   CatCol("total", "numeric", "numeric", <<>>, <<10>>, <<2>>, FALSE, FALSE) >>
          [] t = "audit_log" ->
                << CatCol("id", "integer", "int4", <<>>, <<32>>, <<0>>, TRUE, FALSE),
                   CatCol("user_id", "integer", "int4", <<>>, <<32>>, <<0>>, TRUE, FALSE),
                   CatCol("level", "character varying", "varchar", <<20>>, <<>>, <<>>,
                          FALSE, FALSE) >>
          [] t = "order_summary" ->
                << CatCol("id", "integer", "int4", <<>>, <<32>>, <<0>>, FALSE, FALSE),
                   CatCol("status", "USER-DEFINED", "order_status", <<>>, <<>>, <<>>,
                          FALSE, FALSE) >>
          [] t = "audit" ->
                << CatCol("log_level", "character varying", "varchar", <<10>>, <<>>, <<>>,
                          FALSE, FALSE) >>
          [] OTHER -> << >>
    ELSE
        CASE t = "users" ->
                << CatCol("id", "int", "int", <<>>, <<10>>, <<0>>, TRUE, FALSE),
                   CatCol("email", "varchar", "varchar(255)", <<255>>, <<>>, <<>>, FALSE, TRUE),
                   CatCol("status", "enum", "enum('active','inactive')", <<8>>, <<>>, <<>>,
                          FALSE, FALSE) >>
          [] t = "orders" ->
                << CatCol("id", "int", "int", <<>>, <<10>>, <<0>>, TRUE, FALSE),
                   CatCol("user_id", "int", "int", <<>>, <<10>>, <<0>>, FALSE, FALSE),
                   CatCol("audit_id", "int", "int", <<>>, <<10>>, <<0>>, FALSE, TRUE),
                   CatCol("total", "decimal", "decimal(10,2)", <<>>, <<10>>, <<2>>,
                          FALSE, FALSE) >>
          [] t = "audit_log" ->
                << CatCol("id", "int", "int", <<>>, <<10>>, <<0>>, TRUE, FALSE),
                   CatCol("user_id", "int", "int", <<>>, <<10>>, <<0>>, TRUE, FALSE),
                   CatCol("level", "enum", "enum('active','inactive')", <<8>>, <<>>, <<>>,
                          FALSE, FALSE) >>
          [] t = "order_summary" ->
                << CatCol("id", "int", "int", <<>>, <<10>>, <<0>>, FALSE, FALSE),
                   CatCol("status", "enum", "enum('pending','shipped')", <<7>>, <<>>, <<>>,
                          FALSE, FALSE) >>
          [] t = "audit" ->
                << CatCol("log_level", "enum", "enum('info','warn')", <<4>>, <<>>, <<>>,
                          FALSE, FALSE) >>
          [] OTHER -> << >>

\* pg_type / pg_enum: the enum types of schema public, by name, labels in sort order
CatalogEnums ==
    << [enum_name |-> "order_status", labels |-> <<"pending", "shipped">>],
       [enum_name |-> "user_status", labels |-> <<"active", "inactive">>] >>

\* the secondary indexes of each table, by index name
CatalogIndexes(t) ==
    CASE t = "users" ->
            << [index_name |-> "idx_users_email", column_names |-> "email",
                is_unique |-> TRUE],
               [index_name |-> "idx_users_status", column_names |-> "status",
                is_unique |-> FALSE] >>
      [] t = "orders" ->
            << [index_name |-> "idx_orders_audit_id", column_names |-> "audit_id",
                is_unique |-> TRUE],
               [index_name |-> "idx_orders_ref", column_names |-> "user_id,audit_id",
                is_unique |-> FALSE] >>
      [] OTHER -> << >>

\* the foreign-key constraints a catalog may hold
FkConstraint(child, column, parent, rule) ==
    [table_name |-> child, column_name |-> column, foreign_table_name |-> parent,
     delete_rule |-> rule]

ForeignKeyUniverse ==
    { FkConstraint("orders", "user_id", "users", "CASCADE"),
      FkConstraint("orders", "user_id", "users", "RESTRICT"),
      FkConstraint("orders", "audit_id", "audit_log", "SET NULL"),
      FkConstraint("audit_log", "user_id", "users", "NO ACTION"),
      FkConstraint("orders", "audit_id", "users", "SET DEFAULT") }

\* a catalog: its base tables, its views and its foreign keys (between base tables)
Catalogs ==
    { [baseTables |-> b, views |-> v, foreignKeys |-> f] :
        b \in SUBSET BaseTableNames, v \in SUBSET ViewNames,
        f \in {g \in SUBSET ForeignKeyUniverse : Cardinality(g) <= MaxFks} }

ValidCatalog(c) ==
    \A fk \in c.foreignKeys :
        fk.table_name \in c.baseTables /\ fk.foreign_table_name \in c.baseTables

ExcludedTablesChoices ==
    { {}, {"audit_log"}, {"users"}, {"audit_log", "users"},
      {"flyway_schema_history", "audit_log"} }

(***************************************************************************)
(* The catalog queries of the two adapters, as functions of the catalog.   *)
(***************************************************************************)
NameRank(n) == Rank(NameOrder, n)

\* the names of S in ascending order
SortedNames(S) == SelectSeq(NameOrder, LAMBDA n : n \in S)

\* mutant: the NOT IN clause left out of the table query
TableRows_NoExclusion(d, c, excluded) == SortedNames(c.baseTables)

\* getTables: pg_tables of schema public / INFORMATION_SCHEMA.TABLES with
\* TABLE_TYPE = 'BASE TABLE', minus the excluded names, ORDER BY name.  The MySQL
\* adapter drops the NOT IN clause when excludedTables is empty.
TableRows(d, c, excluded) ==
    IF d = "mysql" /\ excluded = {}
    THEN SortedNames(c.baseTables)
    ELSE SortedNames(c.baseTables \ excluded)

\* the CASE expression of PostgreSQLAdapter.getColumns
FullTypePg(r) ==
    CASE r.data_type = "character varying" ->
            "varchar(" \o (IF Len(r.character_maximum_length) = 1
                           THEN ToText(r.character_maximum_length[1]) ELSE "") \o ")"
      [] r.data_type = "numeric" /\ Len(r.numeric_precision) = 1
            /\ Len(r.numeric_scale) = 1 /\ r.numeric_scale[1] > 0 ->
            "numeric(" \o ToText(r.numeric_precision[1]) \o ","
                \o ToText(r.numeric_scale[1]) \o ")"
      [] r.data_type = "numeric" /\ Len(r.numeric_precision) = 1
            /\ ~(Len(r.numeric_scale) = 1 /\ r.numeric_scale[1] > 0) ->
            "numeric(" \o ToText(r.numeric_precision[1]) \o ")"
      [] r.data_type = "numeric" /\ Len(r.numeric_precision) = 0 -> "numeric"
      [] r.data_type = "integer" -> "integer"
      [] r.data_type = "USER-DEFINED" -> r.udt_name
      [] OTHER -> r.data_type

\* the CASE expression of MySQLAdapter.getColumns
FullTypeMy(r) ==
    CASE r.data_type = "varchar" ->
            "varchar(" \o ToText(r.character_maximum_length[1]) \o ")"
      [] r.data_type = "char" ->
            "char(" \o ToText(r.character_maximum_length[1]) \o ")"
      [] r.data_type = "decimal" /\ Len(r.numeric_scale) = 1 /\ r.numeric_scale[1] > 0 ->
            "decimal(" \o ToText(r.numeric_precision[1]) \o ","
                \o ToText(r.numeric_scale[1]) \o ")"
      [] r.data_type = "decimal" /\ ~(Len(r.numeric_scale) = 1 /\ r.numeric_scale[1] > 0) ->
            "decimal(" \o ToText(r.numeric_precision[1]) \o ")"
      [] r.data_type = "enum" -> r.column_type
      [] OTHER -> r.data_type

\* getColumns' query: column_name and full_type, in ordinal position
ColumnRows(d, t) ==
    LET rows == CatalogColumns(d, t) IN
    [k \in 1..Len(rows) |->
        [column_name |-> rows[k].column_name,
         full_type |-> IF d = "postgresql" THEN FullTypePg(rows[k]) ELSE FullTypeMy(rows[k])]]

CatalogColumn(d, t, name) ==
    LET rows == CatalogColumns(d, t)
    IN  rows[CHOOSE k \in 1..Len(rows) : rows[k].column_name = name]

\* isPrimaryKey / isForeignKey / isUnique: one EXISTS or COUNT(*) query each
IsPrimaryKeyResult(d, t, name) == CatalogColumn(d, t, name).primary

IsForeignKeyResult(c, t, name) ==
    \E fk \in c.foreignKeys : fk.table_name = t /\ fk.column_name = name

IsUniqueResult(d, t, name) == CatalogColumn(d, t, name).unique

\* getIndexes: the rows mapped to Index values; column_names is split at ","
IndexesOf(d, t) ==
    LET rows == CatalogIndexes(t) IN
    [k \in 1..Len(rows) |->
        [name |-> rows[k].index_name,
         columns |-> Split(rows[k].column_names, ","),
         isUnique |-> IF d = "mysql"
                      THEN (IF rows[k].is_unique THEN 1 ELSE 0) = 1
                      ELSE rows[k].is_unique]]

\* getRelationships' query: SELECT DISTINCT child, parent, delete rule of every
\* foreign key whose child table is not excluded, ORDER BY child
FkRowSet(d, c, excluded) ==
    { [table_name |-> fk.table_name, foreign_table_name |-> fk.foreign_table_name,
       delete_rule |-> fk.delete_rule] :
        fk \in { g \in c.foreignKeys :
                    (d = "mysql" /\ excluded = {}) \/ g.table_name \notin excluded } }

FkRowResults(d, c, excluded) ==
    LET rows == FkRowSet(d, c, excluded)
    IN  OrderedBy(rows, [r \in rows |-> NameRank(r.table_name)])

\* mutant: child and parent table taken the other way round
RelationshipOf_Swapped(row) ==
    [fromTable |-> row.table_name,
     toTable |-> row.foreign_table_name,
     type |-> IF row.delete_rule = "CASCADE" THEN "identifying" ELSE "non-identifying"]

\* the mapping of one foreign-key row to a Relationship
RelationshipOf(row) ==
    [fromTable |-> row.foreign_table_name,
     toTable |-> row.table_name,
     type |-> IF row.delete_rule = "CASCADE" THEN "identifying" ELSE "non-identifying"]

RelationshipsOf(rows) == [k \in 1..Len(rows) |-> RelationshipOf(rows[k])]

\* MySQLAdapter.getEnums' query: SELECT DISTINCT COLUMN_TYPE, COLUMN_NAME, TABLE_NAME
\* of every enum column of the database, ORDER BY COLUMN_TYPE
EnumDefinitionOrder ==
    <<"enum('active','inactive')", "enum('info','warn')", "enum('pending','shipped')">>

EnumColumnRowSet(c) ==
    UNION { { [enum_definition |-> CatalogColumns("mysql", t)[k].column_type,
               column_name |-> CatalogColumns("mysql", t)[k].column_name,
               table_name |-> t] :
                k \in { n \in 1..Len(CatalogColumns("mysql", t)) :
                            CatalogColumns("mysql", t)[n].data_type = "enum" } }
            : t \in c.baseTables \cup c.views }

EnumColumnResults(c) ==
    LET rows == EnumColumnRowSet(c)
    IN  OrderedBy(rows, [r \in rows |-> Rank(EnumDefinitionOrder, r.enum_definition)])

\* enumDef.match(/enum\((.*)\)/i): the text between the first "enum(" and the last
\* ")" after it, as a sequence of length 1; << >> when there is no match
IsEnumOpenAt(s, i) ==
    /\ i + 4 <= Len(s)
    /\ CharAt(s, i) \in {"e", "E"} /\ CharAt(s, i + 1) \in {"n", "N"}
    /\ CharAt(s, i + 2) \in {"u", "U"} /\ CharAt(s, i + 3) \in {"m", "M"}
    /\ CharAt(s, i + 4) = "("

EnumMatch(s) ==
    LET starts == { i \in 1..Len(s) :
                      IsEnumOpenAt(s, i) /\ \E j \in (i + 5)..Len(s) : CharAt(s, j) = ")" }
    IN  IF starts = {} THEN << >>
        ELSE LET i == CHOOSE a \in starts : \A b \in starts : a <= b
                 j == CHOOSE a \in (i + 5)..Len(s) :
                        /\ CharAt(s, a) = ")"
                        /\ \A b \in (a + 1)..Len(s) : CharAt(s, b) # ")"
             IN  << SubSeq(s, i + 5, j - 1) >>

\* v.trim().replace(/^'|'$/g, "")
StripQuotes(v) ==
    LET t == Trim(v)
        a == IF Len(t) > 0 /\ CharAt(t, 1) = "'" THEN SubSeq(t, 2, Len(t)) ELSE t
    IN  IF Len(a) > 0 /\ CharAt(a, Len(a)) = "'" THEN SubSeq(a, 1, Len(a) - 1) ELSE a

\* Array.from(new Set(values)): first occurrences, in order
RECURSIVE Distinct(_, _)
Distinct(values, i) ==
    IF i > Len(values) THEN << >>
    ELSE LET rest == Distinct(values, i + 1)
         IN  <<values[i]>> \o SelectSeq(rest, LAMBDA v : v # values[i])

EnumValuesOf(group) ==
    LET parts == Split(group, ",")
    IN  Distinct([k \in 1..Len(parts) |-> StripQuotes(parts[k])], 1)

\* the loop over the enum rows: enumMap keeps the first entry of each name, in
\* insertion order
RECURSIVE EnumsFromRows(_, _, _)
EnumsFromRows(rows, i, acc) ==
    IF i > Len(rows) THEN acc
    ELSE LET m == EnumMatch(rows[i].enum_definition)
             enumName == rows[i].table_name \o "_" \o rows[i].column_name \o "_enum"
         IN  IF Len(m) = 1 /\ \A k \in 1..Len(acc) : acc[k].name # enumName
             THEN EnumsFromRows(rows, i + 1,
                    Append(acc, [name |-> enumName, values |-> EnumValuesOf(m[1])]))
             ELSE EnumsFromRows(rows, i + 1, acc)

\* MySQLAdapter.getEnumRelationships' query: every enum column of a relation that
\* is not excluded, ORDER BY TABLE_NAME
EnumRelationshipRowSet(c, excluded) ==
    { [table_name |-> r.table_name, column_name |-> r.column_name] :
        r \in { x \in EnumColumnRowSet(c) : excluded = {} \/ x.table_name \notin excluded } }

EnumRelationshipResults(c, excluded) ==
    LET rows == EnumRelationshipRowSet(c, excluded)
    IN  OrderedBy(rows, [r \in rows |-> NameRank(r.table_name)])

MyEnumRelationshipsOf(rows) ==
    [k \in 1..Len(rows) |->
        [table |-> rows[k].table_name,
         enumType |-> rows[k].table_name \o "_" \o rows[k].column_name \o "_enum"]]

\* PostgreSQLAdapter.getEnumRelationships' inner query: the udt_name of every
\* USER-DEFINED column of one table, in ordinal position, each pushed as an
\* EnumRelationship of that table
PgEnumRelationshipsOfTable(t) ==
    LET rows == SelectSeq(CatalogColumns("postgresql", t),
                          LAMBDA r : r.data_type = "USER-DEFINED")
    IN  [k \in 1..Len(rows) |-> [table |-> t, enumType |-> rows[k].udt_name]]

(***************************************************************************)
(* getSchema, one action per catalog query.  Between two awaits the code   *)
(* runs without interruption, so the loop bookkeeping that follows a query *)
(* belongs to that query's action.                                         *)
(***************************************************************************)
NoFrame ==
    [rows |-> << >>, i |-> 0, columnRows |-> << >>, j |-> 0, columns |-> << >>,
     isPrimaryKey |-> FALSE, isForeignKey |-> FALSE]

EmptySchema == [enums |-> <<>>, tables |-> <<>>, relationships |-> <<>>,
                enumRelationships |-> <<>>]

QueryStates ==
    { "getEnums", "getEnumValues", "getTables", "getColumns", "isPrimaryKey",
      "isForeignKey", "isUnique", "getIndexes", "getRelationships",
      "getEnumRelationships", "getEnumColumns" }

AdapterIdle ==
    /\ apc = "idle"
    /\ enums = << >> /\ tables = << >> /\ relationships = << >>
    /\ enumRelationships = << >>
    /\ frame = NoFrame
    /\ fkRows = << >>
    /\ queryLog = << >>

\* a constructed adapter: the field is declared and not assigned
Unconnected ==
    /\ connection = 0
    /\ sessions = << >>
    /\ calls = << >>

NoFile == [exists |-> FALSE, content |-> ""]

\* no README at readmePath, and writeDiagram not called yet
ReadmeUntouched ==
    /\ readme = NoFile
    /\ writes = << >>

\* no column row is being typed
TypesIdle ==
    /\ colRow = << >>
    /\ fullType = ""
    /\ tpc = "idle"

\* getEnums is not being called on its own
EnumParseIdle ==
    /\ enumColumnRows = << >>
    /\ enumsOut = << >>
    /\ epc = "idle"

\* no GitCommitter at work
GitIdle ==
    /\ gitpc = "idle"
    /\ gitFiles = << >>
    /\ workTree = "clean"
    /\ fileIndex = 0
    /\ gitLog = << >>
    /\ gitOutcome = "pending"
    /\ gitReported = << >>

\* no concurrent writeDiagram calls
RaceIdle ==
    /\ writers = << >>
    /\ readme0 = NoFile

ExtraIdle == TypesIdle /\ EnumParseIdle /\ GitIdle /\ RaceIdle

\* generate-pg-diagram.ts is not running
MainNotStarted ==
    /\ mpc = "idle"
    /\ queriesLeft = 0
    /\ mainDiagram = ""
    /\ diagramFile = NoFile
    /\ writeToReadme = FALSE
    /\ steps = << >>
    /\ exitStatus = "running"
    /\ stderr = << >>

Init ==
    /\ dialect \in {"postgresql", "mysql"}
    /\ catalog \in {c \in Catalogs : ValidCatalog(c)}
    /\ excludedTables \in ExcludedTablesChoices
    /\ showIndexes \in {"true", "false", "omitted"}
    /\ AdapterIdle
    /\ Unconnected
    /\ ReadmeUntouched
    /\ MainNotStarted
    /\ ExtraIdle
    /\ schema = EmptySchema
    /\ diagram = ""
    /\ gpc = "idle"
    /\ type = ""
    /\ cleaned = ""
    /\ cpc = "idle"

(***************************************************************************)
(* connect() and disconnect().  The driver numbers the sessions it opens;  *)
(* end() on a session ends it.                                             *)
(***************************************************************************)
Call(op, outcome, session) == [op |-> op, outcome |-> outcome, session |-> session]

\* connect(): the driver opens a session and the field is assigned
ConnectOk ==
    /\ sessions' = Append(sessions, "open")
    /\ connection' = Len(sessions) + 1
    /\ calls' = Append(calls, Call("connect", "resolved", Len(sessions) + 1))
    /\ UNCHANGED <<genVars, cleanVars, inputVars, adapterVars, readmeVars, mainVars, extraVars>>

\* connect(): the driver throws, so the assignment does not happen
ConnectFails ==
    /\ calls' = Append(calls, Call("connect", "rejected", 0))
    /\ UNCHANGED <<connection, sessions>>
    /\ UNCHANGED <<genVars, cleanVars, inputVars, adapterVars, readmeVars, mainVars, extraVars>>

\* mutant: the test of the field left out of disconnect()
HasSession_Always(c) == TRUE

\* if (this.sql) / if (this.connection): undefined is falsy, a session is truthy
HasSession(c) == c # 0

\* disconnect(): end() on the session the field holds; a member access on
\* undefined throws a TypeError
Disconnect ==
    /\ IF HasSession(connection)
       THEN IF connection = 0
            THEN /\ calls' = Append(calls, Call("disconnect", "rejected", 0))
                 /\ UNCHANGED sessions
            ELSE /\ sessions' = [sessions EXCEPT ![connection] = "ended"]
                 /\ calls' = Append(calls, Call("disconnect", "resolved", connection))
       ELSE /\ calls' = Append(calls, Call("disconnect", "resolved", 0))
            /\ UNCHANGED sessions
    /\ UNCHANGED connection
    /\ UNCHANGED <<genVars, cleanVars, inputVars, adapterVars, readmeVars, mainVars, extraVars>>

\* the caller of the integration tests: beforeAll connects, then the test
\* calls getSchema
BeforeAllConnectOk == calls = << >> /\ apc = "idle" /\ ConnectOk

BeforeAllConnectFails == calls = << >> /\ apc = "idle" /\ ConnectFails

\* a query on an ended session or through an unassigned field throws
SessionOpen == connection # 0 /\ sessions[connection] = "open"

\* mutant: getSchema starts at the table query, the enum extraction left out
GetSchemaCall_TablesFirst ==
    /\ apc = "idle" /\ Len(calls) = 1
    /\ apc' = IF connection = 0 THEN "rejected" ELSE "getTables"
    /\ UNCHANGED <<enums, tables, relationships, enumRelationships, frame, fkRows, queryLog>>
    /\ UNCHANGED <<genVars, cleanVars, inputVars, restVars>>

GetSchemaCall ==
    /\ apc = "idle" /\ Len(calls) = 1
    /\ apc' = IF connection = 0 THEN "rejected" ELSE "getEnums"
    /\ UNCHANGED <<enums, tables, relationships, enumRelationships, frame, fkRows, queryLog>>
    /\ UNCHANGED <<genVars, cleanVars, inputVars, restVars>>

\* PostgreSQLAdapter.getEnums: the enum names
PgQueryEnumNames ==
    /\ apc = "getEnums" /\ dialect = "postgresql" /\ SessionOpen
    /\ LET enumRows == [k \in 1..Len(CatalogEnums) |-> CatalogEnums[k].enum_name] IN
        /\ frame' = [NoFrame EXCEPT !.rows = enumRows, !.i = 1]
        /\ apc' = IF Len(enumRows) = 0 THEN "getTables" ELSE "getEnumValues"
    /\ enums' = << >>
    /\ queryLog' = Append(queryLog, "enumNames")
    /\ UNCHANGED <<tables, relationships, enumRelationships, fkRows>>
    /\ UNCHANGED <<genVars, cleanVars, inputVars, restVars>>

\* PostgreSQLAdapter.getEnums: the labels of one enum, pushed onto enums
PgQueryEnumValues ==
    /\ apc = "getEnumValues"
    /\ LET enum_name == frame.rows[frame.i]
           entry == CatalogEnums[CHOOSE k \in 1..Len(CatalogEnums) :
                                    CatalogEnums[k].enum_name = enum_name]
       IN  enums' = Append(enums, [name |-> enum_name, values |-> entry.labels])
    /\ frame' = [frame EXCEPT !.i = @ + 1]
    /\ apc' = IF frame.i < Len(frame.rows) THEN "getEnumValues" ELSE "getTables"
    /\ queryLog' = Append(queryLog, "enumValues")
    /\ UNCHANGED <<tables, relationships, enumRelationships, fkRows>>
    /\ UNCHANGED <<genVars, cleanVars, inputVars, restVars>>

\* MySQLAdapter.getEnums: one query, then the enumMap loop
MyQueryEnums ==
    /\ apc = "getEnums" /\ dialect = "mysql" /\ SessionOpen
    /\ \E rows \in EnumColumnResults(catalog) :
        enums' = EnumsFromRows(rows, 1, << >>)
    /\ apc' = "getTables"
    /\ queryLog' = Append(queryLog, "enumColumns")
    /\ UNCHANGED <<tables, relationships, enumRelationships, frame, fkRows>>
    /\ UNCHANGED <<genVars, cleanVars, inputVars, restVars>>

\* getTables, after a table is complete: push it and go to the next row
TableDone(fr, table) ==
    /\ tables' = Append(tables, table)
    /\ frame' = [fr EXCEPT !.i = @ + 1]
    /\ apc' = IF fr.i < Len(fr.rows) THEN "getColumns" ELSE "getRelationships"

\* the default parameter "showIndexes = false" of getSchema and getTables
ShowIndexes == showIndexes = "true"

\* mutant: the indexes fetched whether or not showIndexes is set
ColumnsDone_Always(fr, cols) ==
    /\ frame' = [fr EXCEPT !.columns = cols]
    /\ apc' = "getIndexes"
    /\ UNCHANGED tables

\* getTables, after getColumns returned: fetch the indexes only if showIndexes
ColumnsDone(fr, cols) ==
    IF ShowIndexes
    THEN /\ frame' = [fr EXCEPT !.columns = cols]
         /\ apc' = "getIndexes"
         /\ UNCHANGED tables
    ELSE TableDone([fr EXCEPT !.columns = cols],
                   [name |-> fr.rows[fr.i], columns |-> cols])

QueryTables ==
    /\ apc = "getTables"
    /\ LET tableRows == TableRows(dialect, catalog, excludedTables) IN
        /\ frame' = [NoFrame EXCEPT !.rows = tableRows, !.i = 1]
        /\ apc' = IF Len(tableRows) = 0 THEN "getRelationships" ELSE "getColumns"
    /\ tables' = << >>
    /\ queryLog' = Append(queryLog, "tables")
    /\ UNCHANGED <<enums, relationships, enumRelationships, fkRows>>
    /\ UNCHANGED <<genVars, cleanVars, inputVars, restVars>>

QueryColumns ==
    /\ apc = "getColumns"
    /\ LET columnRows == ColumnRows(dialect, frame.rows[frame.i])
           fr == [frame EXCEPT !.columnRows = columnRows, !.j = 1, !.columns = << >>]
       IN  IF Len(columnRows) = 0
           THEN ColumnsDone(fr, << >>)
           ELSE /\ frame' = fr
                /\ apc' = "isPrimaryKey"
                /\ UNCHANGED tables
    /\ queryLog' = Append(queryLog, "columns")
    /\ UNCHANGED <<enums, relationships, enumRelationships, fkRows>>
    /\ UNCHANGED <<genVars, cleanVars, inputVars, restVars>>

QueryIsPrimaryKey ==
    /\ apc = "isPrimaryKey"
    /\ frame' = [frame EXCEPT !.isPrimaryKey =
                    IsPrimaryKeyResult(dialect, frame.rows[frame.i],
                                       frame.columnRows[frame.j].column_name)]
    /\ apc' = "isForeignKey"
    /\ queryLog' = Append(queryLog, "isPrimaryKey")
    /\ UNCHANGED <<enums, tables, relationships, enumRelationships, fkRows>>
    /\ UNCHANGED <<genVars, cleanVars, inputVars, restVars>>

QueryIsForeignKey ==
    /\ apc = "isForeignKey"
    /\ frame' = [frame EXCEPT !.isForeignKey =
                    IsForeignKeyResult(catalog, frame.rows[frame.i],
                                       frame.columnRows[frame.j].column_name)]
    /\ apc' = "isUnique"
    /\ queryLog' = Append(queryLog, "isForeignKey")
    /\ UNCHANGED <<enums, tables, relationships, enumRelationships, fkRows>>
    /\ UNCHANGED <<genVars, cleanVars, inputVars, restVars>>

\* the third key query, then columns.push and the end of the column loop
QueryIsUnique ==
    /\ apc = "isUnique"
    /\ LET row == frame.columnRows[frame.j]
           column == [name |-> row.column_name,
                      type |-> row.full_type,
                      isPrimaryKey |-> frame.isPrimaryKey,
                      isForeignKey |-> frame.isForeignKey,
                      isUnique |-> IsUniqueResult(dialect, frame.rows[frame.i],
                                                  row.column_name)]
           cols == Append(frame.columns, column)
       IN  IF frame.j < Len(frame.columnRows)
           THEN /\ frame' = [frame EXCEPT !.columns = cols, !.j = @ + 1]
                /\ apc' = "isPrimaryKey"
                /\ UNCHANGED tables
           ELSE ColumnsDone(frame, cols)
    /\ queryLog' = Append(queryLog, "isUnique")
    /\ UNCHANGED <<enums, relationships, enumRelationships, fkRows>>
    /\ UNCHANGED <<genVars, cleanVars, inputVars, restVars>>

QueryIndexes ==
    /\ apc = "getIndexes"
    /\ TableDone(frame, [name |-> frame.rows[frame.i], columns |-> frame.columns,
                         indexes |-> IndexesOf(dialect, frame.rows[frame.i])])
    /\ queryLog' = Append(queryLog, "indexes")
    /\ UNCHANGED <<enums, relationships, enumRelationships, fkRows>>
    /\ UNCHANGED <<genVars, cleanVars, inputVars, restVars>>

QueryRelationships ==
    /\ apc = "getRelationships"
    /\ \E rows \in FkRowResults(dialect, catalog, excludedTables) :
        /\ fkRows' = rows
        /\ relationships' = RelationshipsOf(rows)
    /\ apc' = "getEnumRelationships"
    /\ queryLog' = Append(queryLog, "relationships")
    /\ UNCHANGED <<enums, tables, enumRelationships, frame>>
    /\ UNCHANGED <<genVars, cleanVars, inputVars, restVars>>

\* getSchema's return statement: the schema reaches the caller
Returned(enumRels) ==
    /\ enumRelationships' = enumRels
    /\ schema' = [enums |-> enums, tables |-> tables, relationships |-> relationships,
                  enumRelationships |-> enumRels]
    /\ apc' = "returned"
    /\ gpc' = "ready"
    /\ UNCHANGED diagram

MyQueryEnumRelationships ==
    /\ apc = "getEnumRelationships" /\ dialect = "mysql"
    /\ \E rows \in EnumRelationshipResults(catalog, excludedTables) :
        Returned(MyEnumRelationshipsOf(rows))
    /\ queryLog' = Append(queryLog, "enumRelationships")
    /\ UNCHANGED <<enums, tables, relationships, frame, fkRows>>
    /\ UNCHANGED <<cleanVars, inputVars, restVars>>

\* PostgreSQLAdapter.getEnumRelationships: the table names again
PgQueryEnumRelationshipTables ==
    /\ apc = "getEnumRelationships" /\ dialect = "postgresql"
    /\ LET tableRows == TableRows(dialect, catalog, excludedTables) IN
        IF Len(tableRows) = 0
        THEN /\ Returned(<< >>)
             /\ UNCHANGED frame
        ELSE /\ frame' = [NoFrame EXCEPT !.rows = tableRows, !.i = 1]
             /\ enumRelationships' = << >>
             /\ apc' = "getEnumColumns"
             /\ UNCHANGED genVars
    /\ queryLog' = Append(queryLog, "enumRelationshipTables")
    /\ UNCHANGED <<enums, tables, relationships, fkRows>>
    /\ UNCHANGED <<cleanVars, inputVars, restVars>>

\* PostgreSQLAdapter.getEnumRelationships: the enum columns of one table
PgQueryEnumColumns ==
    /\ apc = "getEnumColumns"
    /\ LET rels == enumRelationships \o PgEnumRelationshipsOfTable(frame.rows[frame.i]) IN
        IF frame.i < Len(frame.rows)
        THEN /\ enumRelationships' = rels
             /\ frame' = [frame EXCEPT !.i = @ + 1]
             /\ apc' = "getEnumColumns"
             /\ UNCHANGED genVars
        ELSE /\ Returned(rels)
             /\ frame' = [frame EXCEPT !.i = @ + 1]
    /\ queryLog' = Append(queryLog, "enumColumns")
    /\ UNCHANGED <<enums, tables, relationships, fkRows>>
    /\ UNCHANGED <<cleanVars, inputVars, restVars>>

\* mutant: the failure is caught and what was extracted so far is returned
QueryFails_PartialResult ==
    /\ apc \in QueryStates
    /\ apc' = "returned"
    /\ queryLog' = Append(queryLog, "failed")
    /\ schema' = [enums |-> enums, tables |-> tables, relationships |-> relationships,
                  enumRelationships |-> enumRelationships]
    /\ gpc' = "ready"
    /\ UNCHANGED <<enums, tables, relationships, enumRelationships, frame, fkRows, diagram>>
    /\ UNCHANGED <<cleanVars, inputVars, restVars>>

\* any catalog query may fail: the await throws and getSchema rejects
QueryFails ==
    /\ apc \in QueryStates
    /\ apc' = "rejected"
    /\ queryLog' = Append(queryLog, "failed")
    /\ UNCHANGED <<enums, tables, relationships, enumRelationships, frame, fkRows>>
    /\ UNCHANGED <<genVars, cleanVars, inputVars, restVars>>

(***************************************************************************)
(* Schemas handed to generate(): the values of the DatabaseSchema          *)
(* interface, within MaxItems.                                             *)
(***************************************************************************)
SeqsUpTo(S, n) == UNION {[1..k -> S] : k \in 0..n}

Col(name, t, pk, fk, uq) ==
    [name |-> name, type |-> t, isPrimaryKey |-> pk, isForeignKey |-> fk, isUnique |-> uq]

EnumUniverse ==
    { [name |-> "status_enum", values |-> <<"active", "inactive">>],
      [name |-> "order_status", values |-> <<"pending">>] }

TableUniverse ==
    { [name |-> "users",
       columns |-> << Col("id", "integer", TRUE, FALSE, FALSE),
                      Col("email", "varchar(255)", FALSE, FALSE, TRUE),
                      Col("created_at", "timestamp without time zone", FALSE, FALSE, FALSE),
                      Col("code", "numeric(10,2)", TRUE, TRUE, TRUE) >>],
      [name |-> "orders",
       columns |-> << Col("id", "integer", TRUE, FALSE, TRUE),
                      Col("user_id", "integer", FALSE, TRUE, FALSE),
                      Col("ref", "double precision", FALSE, TRUE, TRUE),
                      Col("item_id", "integer", TRUE, TRUE, FALSE) >>,
       indexes |-> << [name |-> "idx_orders_user_id", columns |-> <<"user_id">>,
                       isUnique |-> FALSE],
                      [name |-> "idx_orders_ref", columns |-> <<"user_id", "ref">>,
                       isUnique |-> TRUE] >>],
      [name |-> "payments",
       columns |-> << Col("id", "integer", FALSE, FALSE, FALSE) >>,
       indexes |-> << >>] }

RelationshipUniverse ==
    { [fromTable |-> "users", toTable |-> "orders", type |-> "identifying"],
      [fromTable |-> "users", toTable |-> "orders", type |-> "non-identifying"],
      [fromTable |-> "orders", toTable |-> "archive", type |-> "identifying"] }

EnumRelationshipUniverse ==
    { [table |-> "users", enumType |-> "status_enum"],
      [table |-> "orders", enumType |-> "order_status"] }

SchemaSpace ==
    UNION { UNION { UNION {
        { [enums |-> e, tables |-> t, relationships |-> r, enumRelationships |-> x] :
            x \in SeqsUpTo(EnumRelationshipUniverse, MaxItems - Len(e) - Len(t) - Len(r)) }
        : r \in SeqsUpTo(RelationshipUniverse, MaxItems - Len(e) - Len(t)) }
        : t \in SeqsUpTo(TableUniverse, MaxItems - Len(e)) }
        : e \in SeqsUpTo(EnumUniverse, MaxItems) }

(***************************************************************************)
(* SpecGen: a caller builds a schema and calls generate() on it.           *)
(***************************************************************************)
InitGen ==
    /\ schema \in SchemaSpace
    /\ diagram = ""
    /\ gpc = "ready"
    /\ type = ""
    /\ cleaned = ""
    /\ cpc = "idle"
    /\ dialect = "none"
    /\ catalog = [baseTables |-> {}, views |-> {}, foreignKeys |-> {}]
    /\ excludedTables = {}
    /\ showIndexes = "omitted"
    /\ AdapterIdle
    /\ Unconnected
    /\ ReadmeUntouched
    /\ MainNotStarted
    /\ ExtraIdle

GenerateCall ==
    /\ gpc = "ready"
    /\ diagram' = generate(schema)
    /\ gpc' = "generated"
    /\ UNCHANGED <<schema, cleanVars, inputVars, adapterVars, restVars>>

NextGen == GenerateCall

SpecGen == InitGen /\ [][NextGen]_vars

(***************************************************************************)
(* Spec: an adapter extracts the schema of a catalog, query by query, and  *)
(* the schema it returns is rendered.                                      *)
(***************************************************************************)
Next ==
    \/ GetSchemaCall
    \/ PgQueryEnumNames
    \/ PgQueryEnumValues
    \/ MyQueryEnums
    \/ QueryTables
    \/ QueryColumns
    \/ QueryIsPrimaryKey
    \/ QueryIsForeignKey
    \/ QueryIsUnique
    \/ QueryIndexes
    \/ QueryRelationships
    \/ MyQueryEnumRelationships
    \/ PgQueryEnumRelationshipTables
    \/ PgQueryEnumColumns
    \/ QueryFails
    \/ GenerateCall
    \/ BeforeAllConnectOk
    \/ BeforeAllConnectFails

Spec == Init /\ [][Next]_vars

(***************************************************************************)
(* Reading a diagram back: the text is split into lines and the lines into *)
(* blocks, relationship lines and enum-relationship lines, by their        *)
(* Mermaid syntax alone.                                                   *)
(***************************************************************************)
LineEnd(text, i) == FirstAt(text, "\n", i)

RECURSIVE SplitLinesFrom(_, _)
SplitLinesFrom(text, i) ==
    IF i > Len(text) THEN <<>>
    ELSE LET e == LineEnd(text, i)
         IN  <<SubSeq(text, i, e - 1)>> \o SplitLinesFrom(text, e + 1)

Lines(text) == SplitLinesFrom(text, 1)

EndsWith(s, p) == Len(p) <= Len(s) /\ SubSeq(s, Len(s) - Len(p) + 1, Len(s)) = p

IsOpener(l) == EndsWith(l, " {")
IsEnumOpener(l) == IsOpener(l) /\ StartsWithAt(l, "    \"", 1)
IsCloser(l) == l = "    }"
IsRelationshipLine(l) == Includes(l, " ||--o{ ") \/ Includes(l, " ||..o{ ")
IsEnumRelationshipLine(l) == Includes(l, " }o--|| ")

\* the blocks of a text, in order: [opener, body] with body the lines between
\* the opener and its closing brace
RECURSIVE BlocksFrom(_, _, _, _)
BlocksFrom(ls, i, cur, inBlock) ==
    IF i > Len(ls) THEN <<>>
    ELSE IF ~inBlock /\ IsOpener(ls[i])
         THEN BlocksFrom(ls, i + 1, [opener |-> ls[i], body |-> <<>>], TRUE)
    ELSE IF inBlock /\ IsCloser(ls[i])
         THEN <<cur>> \o BlocksFrom(ls, i + 1, cur, FALSE)
    ELSE IF inBlock
         THEN BlocksFrom(ls, i + 1, [cur EXCEPT !.body = Append(@, ls[i])], TRUE)
    ELSE BlocksFrom(ls, i + 1, cur, FALSE)

Blocks(text) == BlocksFrom(Lines(text), 1, [opener |-> "", body |-> <<>>], FALSE)

IsEnumBlock(b) == IsEnumOpener(b.opener)
IsTableBlock(b) == ~IsEnumOpener(b.opener)

EnumBlocks(text) == SelectSeq(Blocks(text), IsEnumBlock)
TableBlocks(text) == SelectSeq(Blocks(text), IsTableBlock)
RelationshipLines(text) == SelectSeq(Lines(text), IsRelationshipLine)
EnumRelationshipLines(text) == SelectSeq(Lines(text), IsEnumRelationshipLine)

(***************************************************************************)
(* Claims about MermaidGenerator, checked under SpecGen.                   *)
(***************************************************************************)

\* C1: every column line carries exactly the indicator chosen by the precedence
\* PK > FK > UK > none: " PK" whenever isPrimaryKey, " FK" only when not a
\* primary key and isForeignKey, " UK" only when neither and isUnique, nothing
\* when all three flags are false.
KeyIndicatorPrecedence ==
    gpc = "generated" =>
        LET tb == TableBlocks(diagram) IN
        /\ Len(tb) = Len(schema.tables)
        /\ \A k \in 1..Len(schema.tables) :
            /\ Len(tb[k].body) >= Len(schema.tables[k].columns)
            /\ \A c \in 1..Len(schema.tables[k].columns) :
                LET col == schema.tables[k].columns[c]
                    indicator ==
                        CASE col.isPrimaryKey -> " PK"
                          [] ~col.isPrimaryKey /\ col.isForeignKey -> " FK"
                          [] ~col.isPrimaryKey /\ ~col.isForeignKey /\ col.isUnique -> " UK"
                          [] OTHER -> ""
                IN  tb[k].body[c] =
                        "        " \o col.name \o " " \o cleanType(col.type) \o indicator

\* a column with all three flags set has been rendered, as " PK"
KeyIndicatorWitness ==
    /\ gpc = "generated"
    /\ \E k \in 1..Len(schema.tables) : \E c \in 1..Len(schema.tables[k].columns) :
        LET col == schema.tables[k].columns[c] IN
        /\ col.isPrimaryKey /\ col.isForeignKey /\ col.isUnique
        /\ Includes(diagram, "        " \o col.name \o " numeric(10_2) PK\n")

\* C2: the relationship lines of the diagram are, one per Relationship and in
\* order, fromTable on the "||" side and toTable on the "o{" side, solid with
\* caption "has" when identifying and dotted with caption "references" otherwise.
RelationshipRendering ==
    gpc = "generated" =>
        LET rl == RelationshipLines(diagram) IN
        /\ Len(rl) = Len(schema.relationships)
        /\ \A i \in 1..Len(schema.relationships) :
            LET rel == schema.relationships[i] IN
            /\ rel.type = "identifying" =>
                rl[i] = "    " \o rel.fromTable \o " ||--o{ " \o rel.toTable \o " : \"has\""
            /\ rel.type # "identifying" =>
                rl[i] = "    " \o rel.fromTable \o " ||..o{ " \o rel.toTable
                            \o " : \"references\""

\* both kinds of relationship have been rendered in one diagram
RelationshipRenderingWitness ==
    /\ gpc = "generated"
    /\ \E i, j \in 1..Len(schema.relationships) :
        /\ schema.relationships[i].type = "identifying"
        /\ schema.relationships[j].type = "non-identifying"
    /\ Includes(diagram, "    users ||--o{ orders : \"has\"\n")
    /\ Includes(diagram, "    users ||..o{ orders : \"references\"\n")

\* C8: the enum blocks of the diagram are, one per EnumType and in order, titled
\* "{name} (ENUM)" with exactly one line "{value} string" per value, in order;
\* an empty schema.enums gives no enum block.
RECURSIVE ValueLinesOf(_, _)
ValueLinesOf(values, i) ==
    IF i > Len(values) THEN <<>>
    ELSE <<"        " \o values[i] \o " string">> \o ValueLinesOf(values, i + 1)

EnumBlockRendering ==
    gpc = "generated" =>
        LET eb == EnumBlocks(diagram) IN
        /\ Len(eb) = Len(schema.enums)
        /\ \A i \in 1..Len(schema.enums) :
            /\ eb[i].opener = "    \"" \o schema.enums[i].name \o " (ENUM)\" {"
            /\ eb[i].body = ValueLinesOf(schema.enums[i].values, 1)

\* the enum status_enum has been rendered with its two values in order
EnumBlockWitness ==
    /\ gpc = "generated"
    /\ \E i \in 1..Len(schema.enums) : schema.enums[i].name = "status_enum"
    /\ Includes(diagram,
         "    \"status_enum (ENUM)\" {\n        active string\n        inactive string\n    }\n")

\* C9: the text starts with the line "erDiagram"; then come the enum blocks,
\* then the table blocks, then the relationship lines, then the
\* enum-relationship lines; each section holds one item per element of the
\* schema sequence, in the order of that sequence, and the column lines of a
\* table block follow the order of its columns.
LinePositions(ls, Test(_)) == {i \in 1..Len(ls) : Test(ls[i])}

IsBlockBoundary(l) == IsOpener(l) \/ IsCloser(l)

SectionOrder ==
    gpc = "generated" =>
        LET ls == Lines(diagram)
            bl == Blocks(diagram)
            rl == RelationshipLines(diagram)
            el == EnumRelationshipLines(diagram)
            ne == Len(schema.enums)
        IN
        /\ Len(ls) >= 1 /\ ls[1] = "erDiagram"
        /\ Len(bl) = ne + Len(schema.tables)
        /\ \A i \in 1..ne :
            bl[i].opener = "    \"" \o schema.enums[i].name \o " (ENUM)\" {"
        /\ \A k \in 1..Len(schema.tables) :
            LET t == schema.tables[k]
                b == bl[ne + k]
            IN  /\ b.opener = "    " \o t.name \o " {"
                /\ Len(b.body) >= Len(t.columns)
                /\ Len(b.body) > Len(t.columns) => b.body[Len(t.columns) + 1] = ""
                /\ \A c \in 1..Len(t.columns) :
                    StartsWithAt(b.body[c], "        " \o t.columns[c].name \o " ", 1)
        /\ Len(rl) = Len(schema.relationships)
        /\ \A i \in 1..Len(schema.relationships) :
            /\ StartsWithAt(rl[i], "    " \o schema.relationships[i].fromTable \o " ", 1)
            /\ Includes(rl[i], "o{ " \o schema.relationships[i].toTable \o " : ")
        /\ Len(el) = Len(schema.enumRelationships)
        /\ \A i \in 1..Len(schema.enumRelationships) :
            el[i] = "    " \o schema.enumRelationships[i].table \o " }o--|| \""
                        \o schema.enumRelationships[i].enumType \o " (ENUM)\" : \"uses\""
        /\ \A i \in LinePositions(ls, IsBlockBoundary) :
           \A j \in LinePositions(ls, IsRelationshipLine) \cup
                    LinePositions(ls, IsEnumRelationshipLine) : 1 < i /\ i < j
        /\ \A i \in LinePositions(ls, IsRelationshipLine) :
           \A j \in LinePositions(ls, IsEnumRelationshipLine) : i < j

\* a schema with every section filled has been rendered, and every section
\* has been found in the text
SectionOrderWitness ==
    /\ gpc = "generated"
    /\ Len(schema.enums) >= 1 /\ Len(schema.tables) >= 1
    /\ Len(schema.relationships) >= 1 /\ Len(schema.enumRelationships) >= 1
    /\ Len(Blocks(diagram)) = 2
    /\ Len(RelationshipLines(diagram)) = 1
    /\ Len(EnumRelationshipLines(diagram)) = 1

(***************************************************************************)
(* SpecClean: cleanType applied to every type string within MaxTypeLen     *)
(* over TypeAlphabet, and to the type names the two catalogs report.       *)
(***************************************************************************)
TypeAlphabet == {"N", "U", "L", ",", " ", "a"}

RECURSIVE StringsUpTo(_)
StringsUpTo(n) ==
    IF n = 0 THEN {""}
    ELSE LET shorter == StringsUpTo(n - 1)
         IN  shorter \cup {s \o c : s \in shorter, c \in TypeAlphabet}

CatalogTypeNames ==
    { "integer", "varchar(255)", "numeric(10,2)", "double precision",
      "timestamp without time zone", "decimal(10,2)", "enum('a','b')" }

\* type strings in which the letters around one "NULL" spell another
NestedTokenTypes == { "NUNULLLL", "NNULLULL", "int NUNULLLL" }

TypeStrings == StringsUpTo(MaxTypeLen) \cup CatalogTypeNames \cup NestedTokenTypes

InitClean ==
    /\ type \in TypeStrings
    /\ cleaned = ""
    /\ cpc = "ready"
    /\ schema = EmptySchema
    /\ diagram = ""
    /\ gpc = "idle"
    /\ dialect = "none"
    /\ catalog = [baseTables |-> {}, views |-> {}, foreignKeys |-> {}]
    /\ excludedTables = {}
    /\ showIndexes = "omitted"
    /\ AdapterIdle
    /\ Unconnected
    /\ ReadmeUntouched
    /\ MainNotStarted
    /\ ExtraIdle

CleanTypeCall ==
    /\ cpc = "ready"
    /\ cleaned' = cleanType(type)
    /\ cpc' = "cleaned"
    /\ UNCHANGED <<type, genVars, inputVars, adapterVars, restVars>>

NextClean == CleanTypeCall

SpecClean == InitClean /\ [][NextClean]_vars

(***************************************************************************)
(* Claims about cleanType, checked under SpecClean.                        *)
(***************************************************************************)
HasWhitespace(t) == \E i \in 1..Len(t) : CharAt(t, i) \in Whitespace

\* no comma, no "NULL", and spaces only singly and only between two words
SingleSpaced(t) ==
    /\ ~Includes(t, ",")
    /\ ~Includes(t, "NULL")
    /\ \A i \in 1..Len(t) :
        CharAt(t, i) \in Whitespace =>
            /\ CharAt(t, i) = " "
            /\ 1 < i /\ i < Len(t)
            /\ CharAt(t, i + 1) \notin Whitespace

\* C7 as stated: a type string with no comma, no "NULL" and only single spaces
\* between words comes back from cleanType unchanged.
CleanTypeKeepsSingleSpaced ==
    (cpc = "cleaned" /\ SingleSpaced(type)) => cleaned = type

\* C7 as amended: a type string with no comma, no "NULL" and no whitespace comes
\* back unchanged; one with single spaces between words comes back with each
\* space replaced by one underscore and nothing else changed.
CleanTypeKeepsCleanInput ==
    (cpc = "cleaned" /\ SingleSpaced(type)) =>
        /\ Len(cleaned) = Len(type)
        /\ \A i \in 1..Len(type) :
            CharAt(cleaned, i) = (IF CharAt(type, i) = " " THEN "_" ELSE CharAt(type, i))
        /\ ~HasWhitespace(type) => cleaned = type

\* "double precision" has been cleaned
CleanTypeWitness ==
    /\ cpc = "cleaned"
    /\ type = "double precision"
    /\ SingleSpaced(type)
    /\ cleaned = "double_precision"

\* C21: the string cleanType returns holds no comma, no whitespace character
\* and no "NULL"; it is the input without its "NULL"s, with every comma and
\* every maximal run of whitespace replaced by one underscore and every other
\* character kept in order.
CleanTypeOutputIsClean ==
    cpc = "cleaned" =>
        /\ ~Includes(cleaned, ",")
        /\ ~HasWhitespace(cleaned)
        /\ ~Includes(cleaned, "NULL")
        /\ cleaned = ReplaceWhitespaceRuns(ReplaceAll(ReplaceAll(type, "NULL", ""), ",", "_"), "_")
        /\ type = "numeric(10,2)" => cleaned = "numeric(10_2)"

(***************************************************************************)
(* Claims about the adapters, checked under Spec.                          *)
(***************************************************************************)

\* C3: the schema holds one Relationship per foreign-key row the catalog
\* returned, in row order, with fromTable the referenced table, toTable the
\* referencing table and type "identifying" exactly when the delete rule is
\* CASCADE, "non-identifying" for every other rule.
RelationshipMapping ==
    apc = "returned" =>
        /\ Len(schema.relationships) = Len(fkRows)
        /\ \A i \in 1..Len(fkRows) :
            LET rel == schema.relationships[i] IN
            /\ rel.fromTable = fkRows[i].foreign_table_name
            /\ rel.toTable = fkRows[i].table_name
            /\ rel.type \in {"identifying", "non-identifying"}
            /\ rel.type = "identifying" <=> fkRows[i].delete_rule = "CASCADE"

\* a schema has been returned from a cascading and a non-cascading foreign key
RelationshipMappingWitness ==
    /\ apc = "returned"
    /\ \E i, j \in 1..Len(fkRows) :
        /\ fkRows[i].delete_rule = "CASCADE"
        /\ fkRows[j].delete_rule = "SET NULL"
        /\ schema.relationships[i].type = "identifying"
        /\ schema.relationships[j].type = "non-identifying"

\* C4: no Relationship of a returned schema has an excluded table as its
\* fromTable or as its toTable.
NoExcludedTableInRelationships ==
    apc = "returned" =>
        \A i \in 1..Len(schema.relationships) :
            /\ schema.relationships[i].fromTable \notin excludedTables
            /\ schema.relationships[i].toTable \notin excludedTables

IndexesSuppressed ==
    showIndexes \in {"false", "omitted"} =>
        /\ \A n \in 1..Len(queryLog) : queryLog[n] # "indexes"
        /\ apc # "getIndexes"
        /\ apc = "returned" =>
            \A k \in 1..Len(schema.tables) : "indexes" \notin DOMAIN schema.tables[k]
        /\ gpc = "generated" =>
            ~Includes(diagram, "INDEX:") /\ ~Includes(diagram, "UNIQUE INDEX:")

\* a diagram has been generated, with showIndexes omitted, from a catalog whose
\* table users has secondary indexes
IndexesSuppressedWitness ==
    /\ gpc = "generated"
    /\ showIndexes = "omitted"
    /\ \E k \in 1..Len(schema.tables) :
        schema.tables[k].name = "users" /\ Len(CatalogIndexes("users")) > 0
    /\ Includes(diagram, "    users {\n")

(***************************************************************************)
(* Dangling references, checked under SpecGen.                             *)
(***************************************************************************)
TableNames(s) == {s.tables[k].name : k \in 1..Len(s.tables)}

IsDangling(s, rel) == rel.fromTable \notin TableNames(s) \/ rel.toTable \notin TableNames(s)

\* the names relationships mention that no table of s carries, in a fixed order
DanglingNames(s) ==
    SelectSeq(<<"users", "orders", "archive">>,
              LAMBDA n : /\ n \notin TableNames(s)
                         /\ \E i \in 1..Len(s.relationships) :
                                n \in {s.relationships[i].fromTable, s.relationships[i].toTable})

\* s with one empty table added for each dangling name
WithDanglingTables(s) ==
    [s EXCEPT !.tables =
        @ \o [k \in 1..Len(DanglingNames(s)) |-> [name |-> DanglingNames(s)[k], columns |-> <<>>]]]

\* C11: generate() returns a text for every schema, and a Relationship whose
\* fromTable or toTable names no Table of schema.tables still has its line, in
\* its place; the enum blocks, the table blocks of the tables that exist, the
\* relationship lines and the enum-relationship lines are those of the diagram
\* generated from the same schema with the missing tables added.
DanglingReferenceKept ==
    gpc = "generated" =>
        LET rl == RelationshipLines(diagram)
            full == generate(WithDanglingTables(schema))
        IN
        /\ Len(rl) = Len(schema.relationships)
        /\ \A i \in 1..Len(schema.relationships) :
            LET rel == schema.relationships[i] IN
            IsDangling(schema, rel) =>
                /\ StartsWithAt(rl[i], "    " \o rel.fromTable \o " ||", 1)
                /\ EndsWith(rl[i], "o{ " \o rel.toTable \o " : \""
                        \o (IF rel.type = "identifying" THEN "has" ELSE "references") \o "\"")
        /\ EnumBlocks(full) = EnumBlocks(diagram)
        /\ SubSeq(TableBlocks(full), 1, Len(schema.tables)) = TableBlocks(diagram)
        /\ Len(TableBlocks(full)) = Len(schema.tables) + Len(DanglingNames(schema))
        /\ RelationshipLines(full) = rl
        /\ EnumRelationshipLines(full) = EnumRelationshipLines(diagram)

\* a relationship to the missing table archive and one from the missing table
\* users have been rendered
DanglingReferenceWitness ==
    /\ gpc = "generated"
    /\ "users" \notin TableNames(schema) /\ "orders" \in TableNames(schema)
    /\ \E i, j \in 1..Len(schema.relationships) :
        /\ schema.relationships[i].toTable = "archive"
        /\ schema.relationships[j].fromTable = "users"
    /\ Includes(diagram, "    orders ||--o{ archive : \"has\"\n")
    /\ Includes(diagram, "    users ||")

(***************************************************************************)
(* Claims about MySQLAdapter.getEnums, checked under Spec.                 *)
(***************************************************************************)
\* the labels an enum column was declared with
DeclaredLabels(columnType) ==
    CASE columnType = "enum('active','inactive')" -> <<"active", "inactive">>
      [] columnType = "enum('info','warn')" -> <<"info", "warn">>
      [] columnType = "enum('pending','shipped')" -> <<"pending", "shipped">>
      [] columnType = "enum('a,b','c')" -> <<"a,b", "c">>
      [] columnType = "enum('it''s','ok')" -> <<"it's", "ok">>
      [] columnType = "enum('x')" -> <<"x">>

\* the entries of schema.enums that stand for the enum column r
EnumEntriesOf(r) ==
    { k \in 1..Len(schema.enums) :
        /\ schema.enums[k].name = r.table_name \o "_" \o r.column_name \o "_enum"
        /\ schema.enums[k].values = DeclaredLabels(r.enum_definition) }

\* C12: the schema the MySQL adapter returns holds, for every enum column of
\* the database, an EnumType named "{table}_{column}_enum" with the values of
\* that column's declaration, and two distinct enum columns have two separate
\* entries.
EveryEnumColumnHasItsEnumType ==
    (apc = "returned" /\ dialect = "mysql") =>
        /\ \A r \in EnumColumnRowSet(catalog) : EnumEntriesOf(r) # {}
        /\ \A r1, r2 \in EnumColumnRowSet(catalog) :
            r1 # r2 => \E k1 \in EnumEntriesOf(r1), k2 \in EnumEntriesOf(r2) : k1 # k2

(***************************************************************************)
(* SpecLife: a client calls connect() and disconnect() of one adapter in   *)
(* any order, each call awaited before the next.                           *)
(***************************************************************************)
InitLife ==
    /\ dialect \in {"postgresql", "mysql"}
    /\ catalog = [baseTables |-> {}, views |-> {}, foreignKeys |-> {}]
    /\ excludedTables = {}
    /\ showIndexes = "omitted"
    /\ AdapterIdle
    /\ Unconnected
    /\ ReadmeUntouched
    /\ MainNotStarted
    /\ ExtraIdle
    /\ schema = EmptySchema
    /\ diagram = ""
    /\ gpc = "idle"
    /\ type = ""
    /\ cleaned = ""
    /\ cpc = "idle"

ClientConnectOk == Len(calls) < MaxCalls /\ ConnectOk

ClientConnectFails == Len(calls) < MaxCalls /\ ConnectFails

ClientDisconnect == Len(calls) < MaxCalls /\ Disconnect

NextLife ==
    \/ ClientConnectOk
    \/ ClientConnectFails
    \/ ClientDisconnect

SpecLife == InitLife /\ [][NextLife]_vars

\* the connect() calls before call n that succeeded
SucceededBefore(n) ==
    {m \in 1..(n - 1) : calls[m].op = "connect" /\ calls[m].outcome = "resolved"}

\* C13: a disconnect() made when no connect() has succeeded (none was made, or
\* every one failed) completes without error and touches no session; a
\* disconnect() made after a successful connect() completes having ended the
\* session that connect() opened.
DisconnectIsSafe ==
    \A n \in 1..Len(calls) :
        calls[n].op = "disconnect" =>
            IF SucceededBefore(n) = {}
            THEN /\ calls[n].outcome = "resolved"
                 /\ calls[n].session = 0
                 /\ \A k \in 1..Len(sessions) :
                        sessions[k] = "ended" =>
                            \E m \in (n + 1)..Len(calls) :
                                calls[m].op = "disconnect" /\ calls[m].session = k
            ELSE LET last == CHOOSE m \in SucceededBefore(n) :
                                \A o \in SucceededBefore(n) : o <= m
                 IN  /\ calls[n].outcome = "resolved"
                     /\ calls[n].session = calls[last].session
                     /\ sessions[calls[last].session] = "ended"

\* connect() failed, disconnect() was a no-op, connect() succeeded and
\* disconnect() ended its session
DisconnectWitness ==
    /\ Len(calls) = 4
    /\ calls[1] = Call("connect", "rejected", 0)
    /\ calls[2] = Call("disconnect", "resolved", 0)
    /\ calls[3] = Call("connect", "resolved", 1)
    /\ calls[4] = Call("disconnect", "resolved", 1)
    /\ sessions = <<"ended">>

(***************************************************************************)
(* Claims about getSchema's control flow, checked under Spec.              *)
(***************************************************************************)
\* C14: once a catalog query has failed, getSchema is rejected, the failed
\* query is the last one issued, and no Schema value has reached the caller:
\* nothing is returned and nothing can be rendered.
FailedQueryAborts ==
    \A n \in 1..Len(queryLog) :
        queryLog[n] = "failed" =>
            /\ n = Len(queryLog)
            /\ apc = "rejected"
            /\ schema = EmptySchema
            /\ gpc = "idle"
            /\ diagram = ""

\* a key-role query of the second table failed, after a first table had been
\* completed
FailedQueryWitness ==
    /\ apc = "rejected"
    /\ Len(queryLog) >= 2
    /\ queryLog[Len(queryLog)] = "failed"
    /\ queryLog[Len(queryLog) - 1] = "isForeignKey"
    /\ Len(tables) = 1
    /\ frame.i = 2
    /\ schema = EmptySchema

\* the extraction step a logged query belongs to, with the index queries
\* counted as step indexStep
StepOf(q, indexStep) ==
    CASE q \in {"enumNames", "enumValues"} -> 1
      [] q = "enumColumns" -> IF dialect = "mysql" THEN 1 ELSE 5
      [] q = "tables" -> 2
      [] q \in {"columns", "isPrimaryKey", "isForeignKey", "isUnique"} -> 3
      [] q = "relationships" -> 4
      [] q \in {"enumRelationships", "enumRelationshipTables"} -> 5
      [] q = "indexes" -> indexStep

CountOf(q) == Cardinality({n \in 1..Len(queryLog) : queryLog[n] = q})

\* the queries were issued step after step, the index queries in indexStep;
\* it is enough to compare each query with the next
StepsInOrder(indexStep) ==
    /\ \A n \in 1..(Len(queryLog) - 1) :
        queryLog[n + 1] # "failed" =>
            StepOf(queryLog[n], indexStep) <= StepOf(queryLog[n + 1], indexStep)
    /\ CountOf("indexes") > 0 => ShowIndexes
    /\ apc = "returned" =>
        /\ StepOf(queryLog[1], indexStep) = 1
        /\ CountOf("tables") = 1
        /\ CountOf("columns") = Len(schema.tables)
        /\ CountOf("relationships") = 1
        /\ StepOf(queryLog[Len(queryLog)], indexStep) = 5
        /\ ShowIndexes => CountOf("indexes") = Len(schema.tables)

\* C15 as stated: enum extraction, table discovery, per-table column and
\* key-role resolution, relationship extraction, enum-relationship extraction
\* and only then, only if showIndexes is true, the index queries.
IndexesExtractedLast == StepsInOrder(6)

\* C15 as amended: enum extraction, table discovery, then table by table the
\* column and key-role resolution followed at once, only if showIndexes is
\* true, by that table's index query, then relationship extraction, then
\* enum-relationship extraction; no index query follows the relationship query.
IndexesExtractedPerTable ==
    /\ StepsInOrder(3)
    /\ \A n \in 1..Len(queryLog) :
        queryLog[n] = "indexes" =>
            n > 1 /\ queryLog[n - 1] \in {"isUnique", "columns"}
    /\ \A n \in 2..Len(queryLog) :
        queryLog[n] \in {"columns", "relationships"} =>
            \/ queryLog[n - 1] = "tables"
            \/ ShowIndexes /\ queryLog[n - 1] = "indexes"
            \/ ~ShowIndexes /\ queryLog[n - 1] \in {"isUnique", "columns"}

\* a schema of two tables has been returned with showIndexes true: both index
\* queries were issued before the relationship query
ExtractionOrderWitness ==
    /\ apc = "returned"
    /\ showIndexes = "true"
    /\ Len(schema.tables) = 2
    /\ CountOf("indexes") = 2
    /\ \E n \in 1..Len(queryLog) :
        /\ queryLog[n] = "relationships"
        /\ \A m \in 1..Len(queryLog) : queryLog[m] = "indexes" => m < n

(***************************************************************************)
(* ReadmeWriter.  The three private methods are functions from the text    *)
(* read (and the diagram) to the text written.                             *)
(***************************************************************************)
StartMarker == "<!-- ER_DIAGRAM_START -->"
EndMarker == "<!-- ER_DIAGRAM_END -->"

\* the code fence of three grave accents; a TLA+ string cannot hold a grave
\* accent, so each is written as a tilde
Fence == "~~~"

\* s.indexOf(p), counted from 1; 0 when p does not occur
IndexOf(s, p) ==
    IF Includes(s, p)
    THEN CHOOSE i \in 1..(Len(s) + 1) :
            StartsWithAt(s, p, i) /\ \A j \in 1..(i - 1) : ~StartsWithAt(s, p, j)
    ELSE 0

\* s.substring(from) and s.substring(0, to), positions counted from 1
SubstringFrom(s, from) == SubSeq(s, from, Len(s))
SubstringTo(s, to) == SubSeq(s, 1, to - 1)

hasMarkers(readmeContent) ==
    Includes(readmeContent, StartMarker) /\ Includes(readmeContent, EndMarker)

\* mutant: the text kept after the section starts at the old end marker
replaceExistingDiagram_KeepEndMarker(readmeContent, d) ==
    SubstringTo(readmeContent, IndexOf(readmeContent, StartMarker))
        \o StartMarker \o "\n" \o Fence \o "mermaid\n" \o d \o Fence \o "\n" \o EndMarker
        \o SubstringFrom(readmeContent, IndexOf(readmeContent, EndMarker))

replaceExistingDiagram(readmeContent, d) ==
    LET beforeDiagram == SubstringTo(readmeContent, IndexOf(readmeContent, StartMarker))
        afterDiagram == SubstringFrom(readmeContent,
                            IndexOf(readmeContent, EndMarker) + Len(EndMarker))
        diagramSection == StartMarker \o "\n" \o Fence \o "mermaid\n" \o d \o Fence \o "\n" \o EndMarker
    IN  beforeDiagram \o diagramSection \o afterDiagram

\* mutant: the section is written without the text that was read
appendDiagram_Overwrite(readmeContent, d) ==
    "\n\n" \o StartMarker \o "\n## Database ER Diagram\n\n" \o Fence \o "mermaid\n"
        \o d \o Fence \o "\n" \o EndMarker \o "\n"

appendDiagram(readmeContent, d) ==
    LET diagramSection ==
            "\n\n" \o StartMarker \o "\n## Database ER Diagram\n\n" \o Fence
                \o "mermaid\n" \o d \o Fence \o "\n" \o EndMarker \o "\n"
    IN  readmeContent \o diagramSection

createNewReadme(d) ==
    "# Database Documentation\n\n" \o StartMarker \o "\n## ER Diagram\n\n" \o Fence
        \o "mermaid\n" \o d \o Fence \o "\n" \o EndMarker \o "\n"

\* the diagrams handed to writeDiagram: two the generator returns, and one
\* that does not end in a line break
DiagramTexts ==
    { generate(EmptySchema),
      generate([EmptySchema EXCEPT
                    !.tables = << [name |-> "users",
                                   columns |-> <<Col("id", "integer", TRUE, FALSE, FALSE)>>] >>]),
      "erDiagram\n    products {\n        id integer PK\n    }" }

\* the READMEs writeDiagram may find
ReadmeTexts ==
    { "",
      "# My Database\n",
      "# T\n" \o StartMarker \o "\nold\n" \o EndMarker \o "\nmore",
      StartMarker \o EndMarker,
      "# T\n" \o EndMarker \o "\nmid\n" \o StartMarker \o "\nmore",
      "# T\n" \o StartMarker \o "\nold\n",
      "# T\n" \o EndMarker \o "\nmore",
      "# T\n" \o StartMarker \o "\nold\n" \o EndMarker \o "\nmid\n"
            \o StartMarker \o "\nold2\n" \o EndMarker \o "\nmore",
      "# T\n" \o EndMarker \o "\nmid\n" \o StartMarker \o "\nold\n" \o EndMarker \o "\nmore" }

Write(d, branch) == [diagram |-> d, branch |-> branch, before |-> readme]

\* writeDiagram on a path with no file
WriteCreates ==
    /\ Len(writes) < MaxWrites
    /\ ~readme.exists
    /\ \E d \in DiagramTexts :
        /\ readme' = [exists |-> TRUE, content |-> createNewReadme(d)]
        /\ writes' = Append(writes, Write(d, "created"))
    /\ UNCHANGED <<genVars, cleanVars, inputVars, adapterVars, lifeVars, mainVars, extraVars>>

\* writeDiagram on a file that includes both markers
WriteReplaces ==
    /\ Len(writes) < MaxWrites
    /\ readme.exists /\ hasMarkers(readme.content)
    /\ \E d \in DiagramTexts :
        /\ readme' = [exists |-> TRUE, content |-> replaceExistingDiagram(readme.content, d)]
        /\ writes' = Append(writes, Write(d, "replaced"))
    /\ UNCHANGED <<genVars, cleanVars, inputVars, adapterVars, lifeVars, mainVars, extraVars>>

\* writeDiagram on a file that lacks a marker
WriteAppends ==
    /\ Len(writes) < MaxWrites
    /\ readme.exists /\ ~hasMarkers(readme.content)
    /\ \E d \in DiagramTexts :
        /\ readme' = [exists |-> TRUE, content |-> appendDiagram(readme.content, d)]
        /\ writes' = Append(writes, Write(d, "appended"))
    /\ UNCHANGED <<genVars, cleanVars, inputVars, adapterVars, lifeVars, mainVars, extraVars>>

(***************************************************************************)
(* SpecReadme: writeDiagram called, one call after the other, on a path    *)
(* that holds no file or one of ReadmeTexts.                               *)
(***************************************************************************)
InitReadme ==
    /\ readme \in {NoFile} \cup {[exists |-> TRUE, content |-> t] : t \in ReadmeTexts}
    /\ writes = << >>
    /\ dialect = "none"
    /\ catalog = [baseTables |-> {}, views |-> {}, foreignKeys |-> {}]
    /\ excludedTables = {}
    /\ showIndexes = "omitted"
    /\ AdapterIdle
    /\ Unconnected
    /\ MainNotStarted
    /\ ExtraIdle
    /\ schema = EmptySchema
    /\ diagram = ""
    /\ gpc = "idle"
    /\ type = ""
    /\ cleaned = ""
    /\ cpc = "idle"

NextReadme ==
    \/ WriteCreates
    \/ WriteReplaces
    \/ WriteAppends

SpecReadme == InitReadme /\ [][NextReadme]_vars

(***************************************************************************)
(* Claims about ReadmeWriter, checked under SpecReadme.                    *)
(***************************************************************************)
\* the text of the file after the n-th writeDiagram call
ContentAfter(n) == IF n < Len(writes) THEN writes[n + 1].before.content ELSE readme.content

Occurrences(s, p) == {i \in 1..Len(s) : StartsWithAt(s, p, i)}

\* t is one marked block for d: it starts with the start marker, ends with the
\* end marker, holds no other marker, and ends inside with d in a mermaid fence
IsMarkedBlock(t, d) ==
    /\ Occurrences(t, StartMarker) = {1}
    /\ Occurrences(t, EndMarker) = {Len(t) - Len(EndMarker) + 1}
    /\ EndsWith(SubSeq(t, 1, Len(t) - Len(EndMarker)),
                "\n" \o Fence \o "mermaid\n" \o d \o Fence \o "\n")

\* C16: a writeDiagram call on a README that holds both markers writes the
\* text before the start marker, the new marked block and the text after the
\* end marker, where the two texts are the parts of the old README on either
\* side of its marked region: nothing outside the region is changed or written
\* twice, and the old region is not written back.
ReplaceKeepsTheRest ==
    \A n \in 1..Len(writes) :
        hasMarkers(writes[n].before.content) =>
            LET b == writes[n].before.content
                a == ContentAfter(n)
                pre == SubstringTo(b, IndexOf(b, StartMarker))
                post == SubstringFrom(b, IndexOf(b, EndMarker) + Len(EndMarker))
                block == SubSeq(a, Len(pre) + 1, Len(a) - Len(post))
                region == SubSeq(b, Len(pre) + 1, Len(b) - Len(post))
            IN  /\ a = pre \o block \o post
                /\ IsMarkedBlock(block, writes[n].diagram)
                /\ b = pre \o region \o post
                /\ StartsWithAt(region, StartMarker, 1)
                /\ EndsWith(region, EndMarker)

\* C17: every writeDiagram(d) leaves a marked block with d, verbatim, in a
\* mermaid fence; on a missing file the text written is the title
\* "# Database Documentation" and that block; on a file lacking a marker it is
\* the text read, unchanged, followed by that block.
DiagramWrapped ==
    \A n \in 1..Len(writes) :
        LET w == writes[n]
            b == w.before.content
            a == ContentAfter(n)
        IN  /\ \E i \in Occurrences(a, StartMarker) :
                \E j \in Occurrences(a, EndMarker) :
                    IsMarkedBlock(SubSeq(a, i, j + Len(EndMarker) - 1), w.diagram)
            /\ ~w.before.exists =>
                /\ StartsWithAt(a, "# Database Documentation", 1)
                /\ IsMarkedBlock(Trim(SubstringFrom(a, Len("# Database Documentation") + 1)),
                                 w.diagram)
            /\ (w.before.exists /\ ~hasMarkers(b)) =>
                /\ StartsWithAt(a, b, 1)
                /\ IsMarkedBlock(Trim(SubstringFrom(a, Len(b) + 1)), w.diagram)

\* a diagram has been appended to a README without markers, and then replaced
DiagramWrappedWitness ==
    /\ Len(writes) = 2
    /\ writes[1].before = [exists |-> TRUE, content |-> "# My Database\n"]
    /\ writes[1].branch = "appended"
    /\ writes[2].branch = "replaced"
    /\ StartsWithAt(readme.content, "# My Database\n", 1)

\* C18: after one or more writeDiagram calls that started with no README, the
\* file holds one start marker and, after it, one end marker; between them
\* stands the fenced diagram of the last call (under a heading, if the file
\* was just created) and nothing else, and outside them only the title: no
\* text of an earlier diagram is left.
OneCurrentDiagram ==
    (Len(writes) >= 1 /\ ~writes[1].before.exists) =>
        LET a == readme.content
            fenced == Fence \o "mermaid\n" \o writes[Len(writes)].diagram \o Fence \o "\n"
            from == IndexOf(a, StartMarker) + Len(StartMarker)
            to == IndexOf(a, EndMarker)
        IN  /\ Cardinality(Occurrences(a, StartMarker)) = 1
            /\ Cardinality(Occurrences(a, EndMarker)) = 1
            /\ from <= to
            /\ SubSeq(a, from, to - 1) \in {"\n" \o fenced, "\n## ER Diagram\n\n" \o fenced}
            /\ SubstringTo(a, IndexOf(a, StartMarker)) = "# Database Documentation\n\n"
            /\ SubstringFrom(a, to + Len(EndMarker)) = "\n"

\* a README was created with one diagram and then updated with another
OneCurrentDiagramWitness ==
    /\ Len(writes) = 2
    /\ writes[1].branch = "created"
    /\ writes[2].branch = "replaced"
    /\ writes[1].diagram # writes[2].diagram
    /\ Includes(readme.content, writes[2].diagram)

(***************************************************************************)
(* Index lines, checked under SpecGen.                                     *)
(***************************************************************************)
IsIndexLine(l) == Includes(l, "INDEX: ")

IndexesOfTable(t) == IF "indexes" \in DOMAIN t THEN t.indexes ELSE << >>

\* C19: in the block of every table the lines that carry an index are, one per
\* Index of the table and in the order of indexes, the synthetic string field
\* labelled "UNIQUE INDEX:" exactly when isUnique and "INDEX:" otherwise, with
\* the index name and its columns in order; they stand after all column lines;
\* a table whose indexes field is absent or empty has no such line.
IndexRendering ==
    gpc = "generated" =>
        LET tb == TableBlocks(diagram) IN
        /\ Len(tb) = Len(schema.tables)
        /\ \A k \in 1..Len(schema.tables) :
            LET t == schema.tables[k]
                ix == IndexesOfTable(t)
                at == {n \in 1..Len(tb[k].body) : IsIndexLine(tb[k].body[n])}
                il == SelectSeq(tb[k].body, IsIndexLine)
            IN  /\ Len(il) = Len(ix)
                /\ \A n \in at : n > Len(t.columns)
                /\ \A i \in 1..Len(ix) :
                    /\ il[i] = "        string \""
                                \o (IF ix[i].isUnique THEN "UNIQUE INDEX: " ELSE "INDEX: ")
                                \o ix[i].name \o " (" \o Join(ix[i].columns, ", ") \o ")\""
                    /\ Includes(il[i], "UNIQUE INDEX:") <=> ix[i].isUnique
                /\ Len(ix) = 0 => Len(tb[k].body) = Len(t.columns)

\* the table orders has been rendered with its two indexes, next to a table
\* with an empty indexes field
IndexRenderingWitness ==
    /\ gpc = "generated"
    /\ \E k, m \in 1..Len(schema.tables) :
        /\ schema.tables[k].name = "orders"
        /\ "indexes" \in DOMAIN schema.tables[m] /\ schema.tables[m].indexes = << >>
    /\ Includes(diagram,
         "        string \"INDEX: idx_orders_user_id (user_id)\"\n        string \"UNIQUE INDEX: idx_orders_ref (user_id, ref)\"\n    }\n")

(***************************************************************************)
(* generate-pg-diagram.ts: main(), the standalone PostgreSQL script.  One  *)
(* action per await of main(); an await that rejects throws into the       *)
(* catch block of main().                                                  *)
(***************************************************************************)
Step(name, ok) == [step |-> name, ok |-> ok]

\* one error on stderr: who printed it, and the step whose rejection it is
Reported(by, step) == [by |-> by, error |-> step]

\* the diagram file left by an earlier run
StaleFile == [exists |-> TRUE, content |-> "erDiagram\n    stale {\n    }\n"]

\* the awaits inside the try block of main()
TryAwaits == {"mkdir", "query", "writeFile", "readmeExists", "readmeText", "readmeWrite", "end"}

\* the awaits of the if (WRITE_TO_README) block
ReadmeAwaits == {"readmeExists", "readmeText", "readmeWrite"}

\* await $`mkdir -p ${OUTPUT_DIR}` resolves
MainMkdir ==
    /\ mpc = "mkdir"
    /\ mpc' = "query"
    /\ steps' = Append(steps, Step("mkdir", TRUE))
    /\ UNCHANGED <<queriesLeft, mainDiagram, diagramFile, writeToReadme, exitStatus, stderr>>
    /\ UNCHANGED <<genVars, cleanVars, inputVars, adapterVars, lifeVars, readmeVars, extraVars>>

\* one catalog query resolves: the enum names and values, the tables, the
\* columns and key roles of each table, the foreign keys, the enum columns
MainQuery ==
    /\ mpc = "query"
    /\ queriesLeft > 0
    /\ queriesLeft' = queriesLeft - 1
    /\ mpc' = IF queriesLeft = 1 THEN "writeFile" ELSE "query"
    /\ steps' = Append(steps, Step("query", TRUE))
    /\ UNCHANGED <<mainDiagram, diagramFile, writeToReadme, exitStatus, stderr>>
    /\ UNCHANGED <<genVars, cleanVars, inputVars, adapterVars, lifeVars, readmeVars, extraVars>>

\* await Bun.write(MERMAID_FILE, diagram) resolves
MainWriteFile ==
    /\ mpc = "writeFile"
    /\ diagramFile' = [exists |-> TRUE, content |-> mainDiagram]
    /\ mpc' = IF writeToReadme THEN "readmeExists" ELSE "end"
    /\ steps' = Append(steps, Step("writeFile", TRUE))
    /\ UNCHANGED <<queriesLeft, mainDiagram, writeToReadme, exitStatus, stderr>>
    /\ UNCHANGED <<genVars, cleanVars, inputVars, adapterVars, lifeVars, readmeVars, extraVars>>

\* await Bun.file(README_PATH).exists() resolves
MainReadmeExists ==
    /\ mpc = "readmeExists"
    /\ mpc' = IF readme.exists THEN "readmeText" ELSE "readmeWrite"
    /\ steps' = Append(steps, Step("readmeExists", TRUE))
    /\ UNCHANGED <<queriesLeft, mainDiagram, diagramFile, writeToReadme, exitStatus, stderr>>
    /\ UNCHANGED <<genVars, cleanVars, inputVars, adapterVars, lifeVars, readmeVars, extraVars>>

\* await Bun.file(README_PATH).text() resolves
MainReadmeText ==
    /\ mpc = "readmeText"
    /\ mpc' = "readmeWrite"
    /\ steps' = Append(steps, Step("readmeText", TRUE))
    /\ UNCHANGED <<queriesLeft, mainDiagram, diagramFile, writeToReadme, exitStatus, stderr>>
    /\ UNCHANGED <<genVars, cleanVars, inputVars, adapterVars, lifeVars, readmeVars, extraVars>>

\* await Bun.write(README_PATH, ...) resolves, in the branch main() chose
MainReadmeWrite ==
    /\ mpc = "readmeWrite"
    /\ readme' = [exists |-> TRUE,
                  content |-> IF ~readme.exists THEN createNewReadme(mainDiagram)
                              ELSE IF hasMarkers(readme.content)
                                   THEN replaceExistingDiagram(readme.content, mainDiagram)
                                   ELSE appendDiagram(readme.content, mainDiagram)]
    /\ writes' = Append(writes,
                    Write(mainDiagram, IF ~readme.exists THEN "created"
                                       ELSE IF hasMarkers(readme.content)
                                            THEN "replaced" ELSE "appended"))
    /\ mpc' = "end"
    /\ steps' = Append(steps, Step("readmeWrite", TRUE))
    /\ UNCHANGED <<queriesLeft, mainDiagram, diagramFile, writeToReadme, exitStatus, stderr>>
    /\ UNCHANGED <<genVars, cleanVars, inputVars, adapterVars, lifeVars, extraVars>>

\* await sql.end() of the try block resolves; process.exit(0)
MainEnd ==
    /\ mpc = "end"
    /\ mpc' = "exited"
    /\ exitStatus' = "0"
    /\ steps' = Append(steps, Step("end", TRUE))
    /\ UNCHANGED <<queriesLeft, mainDiagram, diagramFile, writeToReadme, stderr>>
    /\ UNCHANGED <<genVars, cleanVars, inputVars, adapterVars, lifeVars, readmeVars, extraVars>>

\* a rejected await of the README block is swallowed and main() goes on
MainThrows_ReadmeIgnored ==
    /\ mpc \in TryAwaits
    /\ mpc' = IF mpc \in ReadmeAwaits THEN "end" ELSE "catch"
    /\ steps' = Append(steps, Step(mpc, FALSE))
    /\ stderr' = Append(stderr, Reported("console.error", mpc))
    /\ UNCHANGED <<queriesLeft, mainDiagram, diagramFile, writeToReadme, exitStatus>>
    /\ UNCHANGED <<genVars, cleanVars, inputVars, adapterVars, lifeVars, readmeVars, extraVars>>

\* an await of the try block rejects: control passes to catch (error), which
\* reports the error with console.error before it awaits sql.end()
MainThrows ==
    /\ mpc \in TryAwaits
    /\ mpc' = "catch"
    /\ steps' = Append(steps, Step(mpc, FALSE))
    /\ stderr' = Append(stderr, Reported("console.error", mpc))
    /\ UNCHANGED <<queriesLeft, mainDiagram, diagramFile, writeToReadme, exitStatus>>
    /\ UNCHANGED <<genVars, cleanVars, inputVars, adapterVars, lifeVars, readmeVars, extraVars>>

\* mutant: a failed sql.end() in catch is reported in place of the caught error
\* and the process ends with status 0
MainCatchEndFails_Masks ==
    /\ mpc = "catch"
    /\ mpc' = "crashed"
    /\ exitStatus' = "0"
    /\ steps' = Append(steps, Step("catchEnd", FALSE))
    /\ stderr' = <<Reported("console.error", "catchEnd")>>
    /\ UNCHANGED <<queriesLeft, mainDiagram, diagramFile, writeToReadme>>
    /\ UNCHANGED <<genVars, cleanVars, inputVars, adapterVars, lifeVars, readmeVars, extraVars>>

\* catch: await sql.end() resolves; process.exit(1)
MainCatchEnd ==
    /\ mpc = "catch"
    /\ mpc' = "exited"
    /\ exitStatus' = "1"
    /\ steps' = Append(steps, Step("catchEnd", TRUE))
    /\ UNCHANGED <<queriesLeft, mainDiagram, diagramFile, writeToReadme, stderr>>
    /\ UNCHANGED <<genVars, cleanVars, inputVars, adapterVars, lifeVars, readmeVars, extraVars>>

\* catch: await sql.end() rejects; the promise of main() rejects with no
\* handler, and the runtime ends the process with status 1
MainCatchEndFails ==
    /\ mpc = "catch"
    /\ mpc' = "crashed"
    /\ exitStatus' = "1"
    /\ steps' = Append(steps, Step("catchEnd", FALSE))
    /\ stderr' = Append(stderr, Reported("unhandled rejection", "catchEnd"))
    /\ UNCHANGED <<queriesLeft, mainDiagram, diagramFile, writeToReadme>>
    /\ UNCHANGED <<genVars, cleanVars, inputVars, adapterVars, lifeVars, readmeVars, extraVars>>

(***************************************************************************)
(* SpecMain: one run of the script, on a database that takes between three *)
(* and MaxQueries catalog queries, with or without WRITE_TO_README.        *)
(***************************************************************************)
InitMain ==
    /\ mpc = "mkdir"
    /\ queriesLeft \in 3..MaxQueries
    /\ mainDiagram \in DiagramTexts
    /\ diagramFile \in {NoFile, StaleFile}
    /\ writeToReadme \in BOOLEAN
    /\ steps = << >>
    /\ exitStatus = "running"
    /\ stderr = << >>
    /\ readme \in {NoFile} \cup {[exists |-> TRUE, content |-> t] : t \in ReadmeTexts}
    /\ writes = << >>
    /\ dialect = "none"
    /\ catalog = [baseTables |-> {}, views |-> {}, foreignKeys |-> {}]
    /\ excludedTables = {}
    /\ showIndexes = "omitted"
    /\ AdapterIdle
    /\ Unconnected
    /\ ExtraIdle
    /\ schema = EmptySchema
    /\ diagram = ""
    /\ gpc = "idle"
    /\ type = ""
    /\ cleaned = ""
    /\ cpc = "idle"

NextMain ==
    \/ MainMkdir
    \/ MainQuery
    \/ MainWriteFile
    \/ MainReadmeExists
    \/ MainReadmeText
    \/ MainReadmeWrite
    \/ MainEnd
    \/ MainThrows
    \/ MainCatchEnd
    \/ MainCatchEndFails

SpecMain == InitMain /\ [][NextMain]_vars

(***************************************************************************)
(* Claims about main() (SpecMain)                                          *)
(***************************************************************************)
\* the steps of the run that rejected
FailedSteps == {n \in 1..Len(steps) : ~steps[n].ok}

\* the steps of the try block that resolved
DoneSteps == {steps[n].step : n \in {m \in 1..Len(steps) : steps[m].ok}}

\* C20: once a step of main() has thrown, control is in the catch block or
\* the process has ended with status 1, and never with status 0; when the
\* step that threw is a catalog query, the run has written neither the
\* diagram file nor the README; and the process ends with status 0 only
\* when no step failed and mkdir, every query, the diagram file write, the
\* README update if WRITE_TO_README is set, and sql.end() have all resolved.
ExitStatusReflectsFailure ==
    /\ FailedSteps # {} =>
        /\ mpc \in {"catch", "exited", "crashed"}
        /\ exitStatus = (IF mpc = "catch" THEN "running" ELSE "1")
    /\ (\E n \in FailedSteps : steps[n].step = "query") =>
        /\ diagramFile \in {NoFile, StaleFile}
        /\ writes = << >>
        /\ ~("writeFile" \in DoneSteps) /\ ~("readmeWrite" \in DoneSteps)
    /\ mpc \in {"exited", "crashed"} => exitStatus \in {"0", "1"}
    /\ exitStatus = "0" =>
        /\ FailedSteps = {}
        /\ {"mkdir", "query", "writeFile", "end"} \subseteq DoneSteps
        /\ queriesLeft = 0
        /\ diagramFile = [exists |-> TRUE, content |-> mainDiagram]
        /\ writeToReadme =>
            /\ {"readmeExists", "readmeWrite"} \subseteq DoneSteps
            /\ Len(writes) = 1 /\ writes[1].diagram = mainDiagram
            /\ readme.exists /\ Includes(readme.content, mainDiagram)

\* a run with WRITE_TO_README set, over a stale diagram file and an existing
\* README, whose second catalog query threw: it has ended with status 1
ExitStatusWitness ==
    /\ mpc = "exited" /\ exitStatus = "1"
    /\ writeToReadme /\ readme.exists /\ diagramFile = StaleFile
    /\ steps = <<Step("mkdir", TRUE), Step("query", TRUE), Step("query", FALSE),
                 Step("catchEnd", TRUE)>>

(***************************************************************************)
(* SpecTypes: the CASE expression of getColumns applied to one row of      *)
(* information_schema.columns, for the rows either catalog can hold.       *)
(***************************************************************************)
Null == << >>

Lengths == {1, 9, 10, 20, 255}
Precisions == {1, 5, 10, 38}
Scales == {0, 2, 4}

\* a scale never exceeds its precision
PrecisionScalePairs == {ps \in Precisions \X Scales : ps[2] <= ps[1]}

\* rows of PostgreSQL's information_schema.columns: character_maximum_length
\* is NULL for a character varying column declared without a length, and
\* numeric_precision and numeric_scale are NULL for an unconstrained numeric
PgColumnRows ==
    { CatCol("c", "character varying", "varchar", l, Null, Null, FALSE, FALSE) :
        l \in {Null} \cup {<<n>> : n \in Lengths} }
    \cup { CatCol("c", "character", "bpchar", <<n>>, Null, Null, FALSE, FALSE) : n \in Lengths }
    \cup { CatCol("c", "numeric", "numeric", Null, <<ps[1]>>, <<ps[2]>>, FALSE, FALSE) :
            ps \in PrecisionScalePairs }
    \cup { CatCol("c", "numeric", "numeric", Null, Null, Null, FALSE, FALSE) }
    \cup { CatCol("c", "integer", "int4", Null, <<32>>, <<0>>, FALSE, FALSE) }
    \cup { CatCol("c", t, t, Null, Null, Null, FALSE, FALSE) :
            t \in {"text", "boolean", "timestamp without time zone", "ARRAY"} }
    \cup { CatCol("c", "USER-DEFINED", u, Null, Null, Null, FALSE, FALSE) :
            u \in {"citext", "user_status", "order_status"} }

\* rows of MySQL's INFORMATION_SCHEMA.COLUMNS: varchar and char always carry a
\* length, decimal always a precision and a scale
MyColumnRows ==
    { CatCol("c", t, t, <<n>>, Null, Null, FALSE, FALSE) :
        t \in {"varchar", "char"}, n \in Lengths }
    \cup { CatCol("c", "decimal", "decimal", Null, <<ps[1]>>, <<ps[2]>>, FALSE, FALSE) :
            ps \in PrecisionScalePairs }
    \cup { CatCol("c", "int", "int", Null, <<10>>, <<0>>, FALSE, FALSE) }
    \cup { CatCol("c", t, t, Null, Null, Null, FALSE, FALSE) :
            t \in {"text", "datetime", "json"} }
    \cup { CatCol("c", "enum", e, <<8>>, Null, Null, FALSE, FALSE) :
            e \in {"enum('active','inactive')", "enum('info','warn')"} }

InitTypes ==
    /\ dialect \in {"postgresql", "mysql"}
    /\ colRow \in (IF dialect = "postgresql" THEN PgColumnRows ELSE MyColumnRows)
    /\ fullType = ""
    /\ tpc = "ready"
    /\ EnumParseIdle
    /\ GitIdle
    /\ RaceIdle
    /\ catalog = [baseTables |-> {}, views |-> {}, foreignKeys |-> {}]
    /\ excludedTables = {}
    /\ showIndexes = "omitted"
    /\ AdapterIdle
    /\ Unconnected
    /\ ReadmeUntouched
    /\ MainNotStarted
    /\ schema = EmptySchema
    /\ diagram = ""
    /\ gpc = "idle"
    /\ type = ""
    /\ cleaned = ""
    /\ cpc = "idle"

\* the column query of PostgreSQLAdapter.getColumns computes full_type
PgFullTypeQuery ==
    /\ tpc = "ready" /\ dialect = "postgresql"
    /\ fullType' = FullTypePg(colRow)
    /\ tpc' = "done"
    /\ UNCHANGED <<colRow, coreVars, enumParseVars, gitVars, raceVars>>

\* the column query of MySQLAdapter.getColumns computes full_type
MyFullTypeQuery ==
    /\ tpc = "ready" /\ dialect = "mysql"
    /\ fullType' = FullTypeMy(colRow)
    /\ tpc' = "done"
    /\ UNCHANGED <<colRow, coreVars, enumParseVars, gitVars, raceVars>>

NextTypes ==
    \/ PgFullTypeQuery
    \/ MyFullTypeQuery

SpecTypes == InitTypes /\ [][NextTypes]_vars

(***************************************************************************)
(* Claims about type canonicalization (SpecTypes)                          *)
(***************************************************************************)
VariableLengthStringTypes == {"character varying", "varchar"}
NumericTypes == {"numeric", "decimal"}

\* C22: a variable-length string column is typed varchar(length) with its
\* length; a numeric or decimal column with a precision is typed
\* name(precision,scale) when its scale is above zero and name(precision)
\* otherwise; a USER-DEFINED column is typed by its udt_name; every other
\* column keeps its native type (MySQL: char with its length, an enum column
\* with its declaration).
TypeCanonicalization ==
    tpc = "done" =>
        /\ colRow.data_type \in VariableLengthStringTypes =>
            \E n \in Lengths :
                /\ colRow.character_maximum_length = <<n>>
                /\ fullType = "varchar(" \o ToText(n) \o ")"
        /\ (colRow.data_type \in NumericTypes /\ colRow.numeric_precision # Null) =>
            LET p == ToText(colRow.numeric_precision[1])
                hasScale == colRow.numeric_scale # Null /\ colRow.numeric_scale[1] > 0
            IN  fullType = colRow.data_type \o "(" \o p
                            \o (IF hasScale THEN "," \o ToText(colRow.numeric_scale[1]) ELSE "")
                            \o ")"
        /\ (colRow.data_type \in NumericTypes /\ colRow.numeric_precision = Null) =>
            fullType = colRow.data_type
        /\ colRow.data_type = "USER-DEFINED" => fullType = colRow.udt_name
        /\ colRow.data_type = "char" =>
            fullType = "char(" \o ToText(colRow.character_maximum_length[1]) \o ")"
        /\ colRow.data_type = "enum" => fullType = colRow.column_type
        /\ colRow.data_type \notin
                (VariableLengthStringTypes \cup NumericTypes \cup {"USER-DEFINED", "char", "enum"}) =>
            fullType = colRow.data_type

(***************************************************************************)
(* SpecEnums: MySQLAdapter.getEnums on the rows its query returns, for     *)
(* enum columns whose labels may hold a comma or a quote.                  *)
(***************************************************************************)
\* COLUMN_TYPE of an enum column, as INFORMATION_SCHEMA.COLUMNS shows it: the
\* labels quoted, a quote inside a label doubled
EnumDeclarations ==
    { "enum('active','inactive')", "enum('a,b','c')", "enum('it''s','ok')", "enum('x')" }

EnumQueryRows ==
    [enum_definition : EnumDeclarations, column_name : {"status", "kind"},
     table_name : {"users", "orders"}]

\* SELECT DISTINCT: no row twice, and a column has one COLUMN_TYPE
EnumQueryResults ==
    { rows \in UNION { [1..n -> EnumQueryRows] : n \in 1..MaxEnumRows } :
        \A i, j \in 1..Len(rows) :
            i # j => <<rows[i].table_name, rows[i].column_name>>
                        # <<rows[j].table_name, rows[j].column_name>> }

InitEnums ==
    /\ enumColumnRows \in EnumQueryResults
    /\ enumsOut = << >>
    /\ epc = "ready"
    /\ TypesIdle
    /\ GitIdle
    /\ RaceIdle
    /\ dialect = "mysql"
    /\ catalog = [baseTables |-> {}, views |-> {}, foreignKeys |-> {}]
    /\ excludedTables = {}
    /\ showIndexes = "omitted"
    /\ AdapterIdle
    /\ Unconnected
    /\ ReadmeUntouched
    /\ MainNotStarted
    /\ schema = EmptySchema
    /\ diagram = ""
    /\ gpc = "idle"
    /\ type = ""
    /\ cleaned = ""
    /\ cpc = "idle"

\* MySQLAdapter.getEnums: the enumMap loop over the rows, then the enums array
GetEnumsCall ==
    /\ epc = "ready"
    /\ enumsOut' = EnumsFromRows(enumColumnRows, 1, << >>)
    /\ epc' = "done"
    /\ UNCHANGED <<enumColumnRows, coreVars, typeVars, gitVars, raceVars>>

NextEnums == GetEnumsCall

SpecEnums == InitEnums /\ [][NextEnums]_vars

(***************************************************************************)
(* Claims about the EnumTypes of MySQLAdapter.getEnums (SpecEnums)         *)
(***************************************************************************)
\* C23: every EnumType getEnums returns has a name no other entry has, and
\* its values are not empty and are the labels of the declaration of the
\* column it is named after, one element per label, in declaration order.
EnumValuesAreDeclaredLabels ==
    epc = "done" =>
        /\ \A i, j \in 1..Len(enumsOut) : i # j => enumsOut[i].name # enumsOut[j].name
        /\ \A k \in 1..Len(enumsOut) :
            /\ enumsOut[k].values # << >>
            /\ \E n \in 1..Len(enumColumnRows) :
                /\ enumsOut[k].name
                    = enumColumnRows[n].table_name \o "_" \o enumColumnRows[n].column_name \o "_enum"
                /\ enumsOut[k].values = DeclaredLabels(enumColumnRows[n].enum_definition)

(***************************************************************************)
(* Claims about the failure path of main() (SpecMain)                      *)
(***************************************************************************)
\* C24: once a catalog query of main() has failed, the first error the
\* process reports is that query's error, printed by console.error; when the
\* process has ended, sql.end() was invoked in the catch block before the
\* exit, the exit status is 1, and a failure of that sql.end() is reported
\* after the query's error and by the runtime only, never by console.error
\* as the cause of the run's failure.
QueryErrorStaysTheCause ==
    (\E n \in FailedSteps : steps[n].step = "query") =>
        /\ stderr # << >>
        /\ stderr[1] = Reported("console.error", "query")
        /\ \A k \in 1..Len(stderr) :
            stderr[k].by = "console.error" => stderr[k].error = "query"
        /\ exitStatus # "0"
        /\ mpc \in {"exited", "crashed"} =>
            /\ steps[Len(steps)].step = "catchEnd"
            /\ exitStatus = "1"
            /\ ~steps[Len(steps)].ok =>
                stderr = <<Reported("console.error", "query"),
                           Reported("unhandled rejection", "catchEnd")>>

\* the third catalog query failed and then sql.end() of the catch block failed
\* too: the process has ended with status 1 and both errors reported in order
QueryErrorWitness ==
    /\ mpc = "crashed" /\ exitStatus = "1"
    /\ steps = <<Step("mkdir", TRUE), Step("query", TRUE), Step("query", TRUE),
                 Step("query", FALSE), Step("catchEnd", FALSE)>>
    /\ stderr = <<Reported("console.error", "query"),
                  Reported("unhandled rejection", "catchEnd")>>

(***************************************************************************)
(* GitCommitter: commitAndPush, one action per git command it awaits.      *)
(***************************************************************************)
Git(cmd, ok) == [cmd |-> cmd, ok |-> ok]

\* commitAndPush leaves through return
GitReturns ==
    /\ gitpc' = "returned"
    /\ gitOutcome' = "resolved"

\* the position after configureGit and after each git add
AfterAdd(i) == IF i > Len(gitFiles) THEN "commit" ELSE "add"

\* mutant: a failed git status makes hasChanges throw
GitStatus_Throws ==
    /\ gitpc = "status"
    /\ \E ok \in BOOLEAN :
        /\ gitLog' = Append(gitLog, Git("status", ok))
        /\ IF ~ok
           THEN /\ gitpc' = "thrown"
                /\ gitOutcome' = "rejected"
                /\ gitReported' = Append(gitReported, "status")
           ELSE /\ IF workTree = "dirty"
                   THEN gitpc' = "config user.name" /\ UNCHANGED gitOutcome
                   ELSE GitReturns
                /\ UNCHANGED gitReported
    /\ UNCHANGED <<gitFiles, workTree, fileIndex>>
    /\ UNCHANGED <<coreVars, typeVars, enumParseVars, raceVars>>

\* hasChanges: git status --porcelain on the files; true when the command
\* succeeded and printed something, false when it printed nothing or failed;
\* commitAndPush returns at once on false
GitStatus ==
    /\ gitpc = "status"
    /\ \E ok \in BOOLEAN :
        LET hasChanges == ok /\ workTree = "dirty" IN
        /\ gitLog' = Append(gitLog, Git("status", ok))
        /\ IF hasChanges
           THEN gitpc' = "config user.name" /\ UNCHANGED gitOutcome
           ELSE GitReturns
    /\ UNCHANGED <<gitFiles, workTree, fileIndex, gitReported>>
    /\ UNCHANGED <<coreVars, typeVars, enumParseVars, raceVars>>

\* configureGit: git config user.name succeeds
GitConfigName ==
    /\ gitpc = "config user.name"
    /\ gitLog' = Append(gitLog, Git("config user.name", TRUE))
    /\ gitpc' = "config user.email"
    /\ UNCHANGED <<gitFiles, workTree, fileIndex, gitOutcome, gitReported>>
    /\ UNCHANGED <<coreVars, typeVars, enumParseVars, raceVars>>

\* configureGit: git config user.email succeeds; stageFiles starts
GitConfigEmail ==
    /\ gitpc = "config user.email"
    /\ gitLog' = Append(gitLog, Git("config user.email", TRUE))
    /\ fileIndex' = 1
    /\ gitpc' = AfterAdd(1)
    /\ UNCHANGED <<gitFiles, workTree, gitOutcome, gitReported>>
    /\ UNCHANGED <<coreVars, typeVars, enumParseVars, raceVars>>

\* stageFiles: git add of the next file succeeds
GitAdd ==
    /\ gitpc = "add"
    /\ gitLog' = Append(gitLog, Git("add " \o gitFiles[fileIndex], TRUE))
    /\ fileIndex' = fileIndex + 1
    /\ gitpc' = AfterAdd(fileIndex + 1)
    /\ UNCHANGED <<gitFiles, workTree, gitOutcome, gitReported>>
    /\ UNCHANGED <<coreVars, typeVars, enumParseVars, raceVars>>

\* createCommit: git commit succeeds
GitCommit ==
    /\ gitpc = "commit"
    /\ gitLog' = Append(gitLog, Git("commit", TRUE))
    /\ gitpc' = "push"
    /\ UNCHANGED <<gitFiles, workTree, fileIndex, gitOutcome, gitReported>>
    /\ UNCHANGED <<coreVars, typeVars, enumParseVars, raceVars>>

\* push: git push succeeds; commitAndPush returns
GitPush ==
    /\ gitpc = "push"
    /\ gitLog' = Append(gitLog, Git("push", TRUE))
    /\ GitReturns
    /\ UNCHANGED <<gitFiles, workTree, fileIndex, gitReported>>
    /\ UNCHANGED <<coreVars, typeVars, enumParseVars, raceVars>>

\* the command commitAndPush is at, as logged
CommandAt ==
    IF gitpc = "add" THEN "add " \o gitFiles[fileIndex] ELSE gitpc

\* the position after the command commitAndPush is at
PositionAfter ==
    CASE gitpc = "config user.name" -> "config user.email"
      [] gitpc = "config user.email" -> AfterAdd(1)
      [] gitpc = "add" -> AfterAdd(fileIndex + 1)
      [] gitpc = "commit" -> "push"
      [] gitpc = "push" -> "returned"

\* mutant: the error of a failed command is printed and commitAndPush goes on
GitStepFails_GoesOn ==
    /\ gitpc \in {"config user.name", "config user.email", "add", "commit", "push"}
    /\ gitLog' = Append(gitLog, Git(CommandAt, FALSE))
    /\ gitReported' = Append(gitReported, CommandAt)
    /\ gitpc' = PositionAfter
    /\ gitOutcome' = IF gitpc = "push" THEN "resolved" ELSE gitOutcome
    /\ fileIndex' = IF gitpc = "add" THEN fileIndex + 1
                    ELSE IF gitpc = "config user.email" THEN 1 ELSE fileIndex
    /\ UNCHANGED <<gitFiles, workTree>>
    /\ UNCHANGED <<coreVars, typeVars, enumParseVars, raceVars>>

\* a git command after the change check fails: catch (error) prints the error
\* and throws it again
GitStepFails ==
    /\ gitpc \in {"config user.name", "config user.email", "add", "commit", "push"}
    /\ gitLog' = Append(gitLog, Git(CommandAt, FALSE))
    /\ gitReported' = Append(gitReported, CommandAt)
    /\ gitpc' = "thrown"
    /\ gitOutcome' = "rejected"
    /\ UNCHANGED <<gitFiles, workTree, fileIndex>>
    /\ UNCHANGED <<coreVars, typeVars, enumParseVars, raceVars>>

(***************************************************************************)
(* SpecGit: one commitAndPush call of a GitCommitter configured with up to *)
(* MaxFiles files, on a work tree with or without changes in them.         *)
(***************************************************************************)
GitFileNames == {"docs/er-diagram.mmd", "README.md", "docs/schema.md"}

FileLists ==
    { fs \in UNION { [1..n -> GitFileNames] : n \in 0..MaxFiles } :
        \A i, j \in 1..Len(fs) : i # j => fs[i] # fs[j] }

InitGit ==
    /\ gitpc = "status"
    /\ gitFiles \in FileLists
    /\ workTree \in {"dirty", "clean"}
    /\ fileIndex = 0
    /\ gitLog = << >>
    /\ gitOutcome = "pending"
    /\ gitReported = << >>
    /\ TypesIdle
    /\ EnumParseIdle
    /\ RaceIdle
    /\ dialect = "none"
    /\ catalog = [baseTables |-> {}, views |-> {}, foreignKeys |-> {}]
    /\ excludedTables = {}
    /\ showIndexes = "omitted"
    /\ AdapterIdle
    /\ Unconnected
    /\ ReadmeUntouched
    /\ MainNotStarted
    /\ schema = EmptySchema
    /\ diagram = ""
    /\ gpc = "idle"
    /\ type = ""
    /\ cleaned = ""
    /\ cpc = "idle"

NextGit ==
    \/ GitStatus
    \/ GitConfigName
    \/ GitConfigEmail
    \/ GitAdd
    \/ GitCommit
    \/ GitPush
    \/ GitStepFails

SpecGit == InitGit /\ [][NextGit]_vars

(***************************************************************************)
(* Claims about GitCommitter (SpecGit)                                     *)
(***************************************************************************)
\* the commands a complete commitAndPush runs, in order
AllGitCommands ==
    <<"status", "config user.name", "config user.email">>
        \o [k \in 1..Len(gitFiles) |-> "add " \o gitFiles[k]]
        \o <<"commit", "push">>

\* C25: the git commands commitAndPush has run are the first ones of: status,
\* config user.name, config user.email, one add per configured file in list
\* order, commit, push; every command but the last one run has succeeded, so
\* push has run only after hasChanges() returned true and both configs, every
\* add and the commit succeeded; when hasChanges() is false the call resolves
\* with nothing but the status command run; when a later command fails, the
\* call rejects with that command the last one run.
GitStepsInOrder ==
    /\ Len(gitLog) <= Len(AllGitCommands)
    /\ \A k \in 1..Len(gitLog) :
        /\ gitLog[k].cmd = AllGitCommands[k]
        /\ k < Len(gitLog) => gitLog[k].ok
    /\ Len(gitLog) > 1 => workTree = "dirty"
    /\ (\E k \in 1..Len(gitLog) : gitLog[k].cmd = "push") =>
        /\ workTree = "dirty" /\ gitLog[1].ok
        /\ Len(gitLog) = Len(AllGitCommands)
    /\ (Len(gitLog) >= 1 /\ ~(gitLog[1].ok /\ workTree = "dirty")) =>
        /\ Len(gitLog) = 1
        /\ gitpc = "returned" /\ gitOutcome = "resolved"
    /\ (\E k \in 2..Len(gitLog) : ~gitLog[k].ok) =>
        /\ gitpc = "thrown" /\ gitOutcome = "rejected"
        /\ gitReported = <<gitLog[Len(gitLog)].cmd>>
    /\ gitOutcome = "resolved" =>
        \/ Len(gitLog) = 1
        \/ /\ Len(gitLog) = Len(AllGitCommands)
           /\ \A k \in 1..Len(gitLog) : gitLog[k].ok

\* with two files configured, the add of the second file failed after status,
\* both configs and the first add succeeded: the call has rejected with no
\* commit and no push
GitStepsWitness ==
    /\ gitFiles = <<"docs/er-diagram.mmd", "README.md">>
    /\ gitOutcome = "rejected"
    /\ gitLog = <<Git("status", TRUE), Git("config user.name", TRUE),
                  Git("config user.email", TRUE), Git("add docs/er-diagram.mmd", TRUE),
                  Git("add README.md", FALSE)>>

\* what a caller of commitAndPush can see of a finished call: how the promise
\* settled, the commands run after the change check, and the errors printed
Observed == [outcome |-> gitOutcome, after |-> SubSeq(gitLog, 2, Len(gitLog)),
             reported |-> gitReported]

\* C30: when the git status command fails, commitAndPush resolves having run
\* no config, add, commit or push and having printed no error, which is
\* exactly what a caller sees when the command succeeds on unchanged files.
FailedStatusLooksClean ==
    LET nothingDone == [outcome |-> "resolved", after |-> << >>, reported |-> << >>] IN
    /\ (Len(gitLog) >= 1 /\ ~gitLog[1].ok) =>
        /\ gitpc = "returned"
        /\ Observed = nothingDone
    /\ (Len(gitLog) >= 1 /\ gitLog[1].ok /\ workTree = "clean") =>
        /\ gitpc = "returned"
        /\ Observed = nothingDone

\* git status has failed on files that do have changes, and the call resolved
FailedStatusWitness ==
    /\ workTree = "dirty"
    /\ gitFiles = <<"README.md">>
    /\ gitLog = <<Git("status", FALSE)>>
    /\ gitpc = "returned" /\ gitOutcome = "resolved"

(***************************************************************************)
(* Claims about enum relationships and excluded tables (Spec)              *)
(***************************************************************************)
EnumNames(s) == {s.enums[k].name : k \in 1..Len(s.enums)}

\* C26: in the schema getSchema returns, the enumType of every
\* EnumRelationship is the name of an EnumType of schema.enums, and once the
\* schema is rendered every "uses" line names an enum whose block is in the
\* diagram.
EnumRelationshipsReferToEnums ==
    /\ apc = "returned" =>
        \A k \in 1..Len(schema.enumRelationships) :
            schema.enumRelationships[k].enumType \in EnumNames(schema)
    /\ (apc = "returned" /\ gpc = "generated") =>
        \A k \in 1..Len(schema.enumRelationships) :
            /\ Includes(diagram, enumRelationshipLine(schema.enumRelationships[k]))
            /\ Includes(diagram,
                 "\n    \"" \o schema.enumRelationships[k].enumType \o " (ENUM)\" {\n")

\* the name getEnums gives the EnumType of the enum column r
EnumNameOf(r) == r.table_name \o "_" \o r.column_name \o "_enum"

\* C27: every EnumType of the schema the MySQL adapter returns is derived from
\* an enum column of a table that is not excluded, and once the schema is
\* rendered no enum block is titled after an enum column of an excluded table
\* only.
NoEnumOfExcludedTable ==
    (apc = "returned" /\ dialect = "mysql") =>
        LET kept == {r \in EnumColumnRowSet(catalog) : r.table_name \notin excludedTables}
            dropped == {r \in EnumColumnRowSet(catalog) : r.table_name \in excludedTables}
        IN  /\ \A k \in 1..Len(schema.enums) :
                \E r \in kept : schema.enums[k].name = EnumNameOf(r)
            /\ gpc = "generated" =>
                \A r \in dropped :
                    (\A q \in kept : EnumNameOf(q) # EnumNameOf(r)) =>
                        ~Includes(diagram, "\"" \o EnumNameOf(r) \o " (ENUM)\" {")

(***************************************************************************)
(* Further claims about ReadmeWriter (SpecReadme)                          *)
(***************************************************************************)
\* C28: a second writeDiagram call with the diagram of the first leaves the
\* file content the first call wrote, whether the README was absent, present
\* without markers or present with markers.
WriteDiagramIdempotent ==
    (Len(writes) = 2 /\ writes[1].diagram = writes[2].diagram) =>
        ContentAfter(2) = ContentAfter(1)

(***************************************************************************)
(* SpecRace: two writeDiagram calls on the same README, running            *)
(* concurrently.  A call is suspended at each of its awaits: the exists    *)
(* check, the read of the file, and the write of the whole file; the steps *)
(* of the two calls interleave in any order.                               *)
(***************************************************************************)
Callers == {1, 2}

\* a writeDiagram(d) call about to check whether the file exists
NewCall(d) == [pc |-> "exists", diagram |-> d, readmeExists |-> FALSE, readmeContent |-> ""]

\* the marked blocks of t: a start marker and the first end marker after it,
\* with no start marker in between
MarkedBlocks(t) ==
    { i \in Occurrences(t, StartMarker) :
        \E j \in Occurrences(t, EndMarker) :
            /\ i < j
            /\ \A k \in Occurrences(t, StartMarker) : ~(i < k /\ k < j) }

\* the READMEs the calls may find: none, or one of ReadmeTexts with at most
\* one marked block
RaceReadmes ==
    {NoFile} \cup
    { [exists |-> TRUE, content |-> t] :
        t \in {x \in ReadmeTexts : Cardinality(MarkedBlocks(x)) <= 1} }

InitRace ==
    /\ readme0 \in RaceReadmes
    /\ readme = readme0
    /\ writes = << >>
    /\ writers \in {<<NewCall(d1), NewCall(d2)>> : d1 \in DiagramTexts, d2 \in DiagramTexts}
    /\ TypesIdle
    /\ EnumParseIdle
    /\ GitIdle
    /\ dialect = "none"
    /\ catalog = [baseTables |-> {}, views |-> {}, foreignKeys |-> {}]
    /\ excludedTables = {}
    /\ showIndexes = "omitted"
    /\ AdapterIdle
    /\ Unconnected
    /\ MainNotStarted
    /\ schema = EmptySchema
    /\ diagram = ""
    /\ gpc = "idle"
    /\ type = ""
    /\ cleaned = ""
    /\ cpc = "idle"

\* await Bun.file(this.readmePath).exists()
RaceExists ==
    \E w \in Callers :
        /\ writers[w].pc = "exists"
        /\ writers' = [writers EXCEPT ![w].readmeExists = readme.exists,
                                      ![w].pc = IF readme.exists THEN "read" ELSE "write"]
        /\ UNCHANGED <<readme, writes, readme0>>
        /\ UNCHANGED <<coreVarsButReadme, typeVars, enumParseVars, gitVars>>

\* updateExistingReadme: await Bun.file(this.readmePath).text()
RaceRead ==
    \E w \in Callers :
        /\ writers[w].pc = "read"
        /\ writers' = [writers EXCEPT ![w].readmeContent = readme.content,
                                      ![w].pc = "write"]
        /\ UNCHANGED <<readme, writes, readme0>>
        /\ UNCHANGED <<coreVarsButReadme, typeVars, enumParseVars, gitVars>>

\* the text a call writes, from what it found and read
TextToWrite(c) ==
    IF ~c.readmeExists THEN createNewReadme(c.diagram)
    ELSE IF hasMarkers(c.readmeContent) THEN replaceExistingDiagram(c.readmeContent, c.diagram)
    ELSE appendDiagram(c.readmeContent, c.diagram)

\* await Bun.write(this.readmePath, ...) in createNewReadme,
\* replaceExistingDiagram or appendDiagram
RaceWrite ==
    \E w \in Callers :
        /\ writers[w].pc = "write"
        /\ readme' = [exists |-> TRUE, content |-> TextToWrite(writers[w])]
        /\ writers' = [writers EXCEPT ![w].pc = "done"]
        /\ UNCHANGED <<writes, readme0>>
        /\ UNCHANGED <<coreVarsButReadme, typeVars, enumParseVars, gitVars>>

NextRace ==
    \/ RaceExists
    \/ RaceRead
    \/ RaceWrite

SpecRace == InitRace /\ [][NextRace]_vars

(***************************************************************************)
(* Claims about concurrent writeDiagram calls (SpecRace)                   *)
(***************************************************************************)
\* the position of the end marker that closes the marked block starting at i
BlockEnd(t, i) ==
    CHOOSE j \in Occurrences(t, EndMarker) :
        /\ i < j
        /\ \A k \in Occurrences(t, EndMarker) : i < k => j <= k

\* C29: when both calls are done, the file holds exactly one marked block;
\* that block holds the whole diagram of one of the two calls; and the text
\* the README had outside its marked block (all of its text, if it had no
\* block) is still there, before and after the new block.
RaceLeavesOneBlock ==
    (\A w \in Callers : writers[w].pc = "done") =>
        LET a == readme.content
            b == readme0.content
        IN  /\ Cardinality(MarkedBlocks(a)) = 1
            /\ LET i == CHOOSE x \in MarkedBlocks(a) : TRUE
                   j == BlockEnd(a, i)
                   block == SubSeq(a, i, j + Len(EndMarker) - 1)
                   pre == SubstringTo(a, i)
                   post == SubstringFrom(a, j + Len(EndMarker))
               IN  /\ \E w \in Callers : IsMarkedBlock(block, writers[w].diagram)
                   /\ (readme0.exists /\ MarkedBlocks(b) = {}) => StartsWithAt(pre, b, 1)
                   /\ (readme0.exists /\ MarkedBlocks(b) # {}) =>
                        LET i0 == CHOOSE x \in MarkedBlocks(b) : TRUE IN
                        /\ pre = SubstringTo(b, i0)
                        /\ post = SubstringFrom(b, BlockEnd(b, i0) + Len(EndMarker))

====
